---- MODULE Spec2Model ----
(***************************************************************************)
(* Two Worlds 1 PAR editor (tw1_par_editorV2_1.py): the binary PAR codec   *)
(* (ParReader / read_par / ParWriter / write_par), the zlib envelope        *)
(* (decompress_par_file / compress_par_file) and the compare tab of        *)
(* ParEditorApp (_cmp_run_compare, selection handlers, _cmp_merge).        *)
(*                                                                         *)
(* Representation of Python values:                                        *)
(*   bytes        a sequence of integers 0..255                            *)
(*   str          a sequence of code points                                *)
(*   float        the four little-endian bytes of its binary32 pattern     *)
(*                (every float of the program is the widening of one)      *)
(*   field.value  [kind, items]; kind is the Python type of the value and  *)
(*                items is a sequence of sequences of integers: <<n>> for  *)
(*                an int, the pattern for a float, the code points for a   *)
(*                str, and one such element per item for a list            *)
(*   None / x     [some |-> FALSE, v |-> <<>>] / [some |-> TRUE, v |-> x]  *)
(***************************************************************************)
EXTENDS Integers, Sequences, FiniteSets, TLC

VARIABLES
    data,          \* codec: the buffer handed to read_par
    par,           \* codec: result of read_par(data)
    out,           \* codec: result of write_par(par)
    cphase,        \* codec: "input" -> "decoded" -> "encoded"
    afield,        \* array field: the wire form under test [t, marker, n, cut]
    adata,         \* array field: its bytes, followed by one byte of the next field
    ares,          \* array field: reader and ParField after the field is read
    aout,          \* array field: bytes write_par emits for the ParField
    aphase,        \* array field: "input" -> "decoded" -> "encoded"
    env_par_data,  \* envelope: the container bytes handed to compress_par_file
    env_wrapper,   \* envelope: the wrapper handed to compress_par_file (None or bytes)
    env_file,      \* envelope: the file bytes, the result of compress_par_file
    env_result,    \* envelope: the result of decompress_par_file(env_file)
    ephase,       \* envelope: "input" -> "compressed" -> "decompressed"
    cmp_source,    \* ParEditorApp.cmp_source (NoneFile until a file is loaded)
    cmp_input,     \* ParEditorApp.cmp_input
    cmp_original,  \* ParEditorApp.cmp_original
    cmp_diffs,     \* ParEditorApp.cmp_diffs
    cmp_checks,    \* ParEditorApp.cmp_checks: the indices i with cmp_checks[i] true
    cmp_tree,      \* ParEditorApp.cmp_tree: the indices i of the rows "D{i}" shown
    cmp_merge_info,\* ParEditorApp.cmp_merge_info: what the label reports
    cmp_shared,    \* list objects a source field and an input field both refer to
    cmp_last,      \* the compare-tab handler that ran last
    loads,         \* number of files loaded into the compare tab so far
    edits,         \* number of changes made to the input Model after a merge
    desc,          \* decode: what the buffer in data was written out from
    rd,            \* cursor: the ParReader under test
    rop,           \* cursor: the read made last [op, n, pos, err, v]
    frame          \* read_par in progress: the loop it is in and what it has built

codecVars == <<data, par, out, cphase>>
arrayVars == <<afield, adata, ares, aout, aphase>>
envVars == <<env_par_data, env_wrapper, env_file, env_result, ephase>>
cmpVars == <<cmp_source, cmp_input, cmp_original, cmp_diffs, cmp_checks, cmp_tree,
             cmp_merge_info, cmp_shared, cmp_last, loads, edits>>
readerVars == <<desc, rd, rop, frame>>
vars == <<codecVars, arrayVars, envVars, cmpVars, readerVars>>

---------------------------------------------------------------------------
(* PAR FORMAT CONSTANTS *)

PAR_MAGIC == <<80, 65, 82, 0>>
PAR_VERSION_TW1 == 1536

TYPE_INT32 == 0
TYPE_FLOAT32 == 1
TYPE_UINT32 == 2
TYPE_STRING == 3
TYPE_ARRAY_INT32 == 4
TYPE_ARRAY_FLOAT == 5
TYPE_ARRAY_UINT32 == 6
TYPE_ARRAY_STR == 7

MAX_STRING_LENGTH == 1000000

---------------------------------------------------------------------------
(* Python helpers *)

None == [some |-> FALSE, v |-> <<>>]
Some(x) == [some |-> TRUE, v |-> x]

\* b[lo:hi] of Python (0-based, clamped to the length)
Slice(b, lo, hi) ==
    LET h == IF hi > Len(b) THEN Len(b) ELSE hi
    IN  IF lo >= h THEN <<>> ELSE SubSeq(b, lo + 1, h)

SliceFrom(b, lo) == Slice(b, lo, Len(b))

RECURSIVE Concat(_)
Concat(ss) == IF ss = <<>> THEN <<>> ELSE Head(ss) \o Concat(Tail(ss))

PyInt(n) == [kind |-> "int", items |-> << <<n>> >>]
PyFloat(bits) == [kind |-> "float", items |-> <<bits>>]
PyStr(cps) == [kind |-> "str", items |-> <<cps>>]
PyList(elemkind, xs) == [kind |-> elemkind, items |-> xs]

IsList(v) == v.kind \in {"list_int", "list_float", "list_str"}

---------------------------------------------------------------------------
(* Data structures *)

ParFile(version, lists) ==
    [ok |-> TRUE, err |-> "", version |-> version, lists |-> lists,
     wrapper_header |-> None, was_compressed |-> FALSE, trailing_data |-> None]

ParList(unknown1, unknown2, entries) ==
    [unknown1 |-> unknown1, unknown2 |-> unknown2, entries |-> entries]

ParEntry(name, unknown_byte, unknown_u16a, unknown_u16b, fields) ==
    [name |-> name, unknown_byte |-> unknown_byte, unknown_u16a |-> unknown_u16a,
     unknown_u16b |-> unknown_u16b, fields |-> fields]

ParField(dtype, value) == [dtype |-> dtype, value |-> value]

\* the failure of a decode: the exception that left read_par
ParError(e) ==
    [ok |-> FALSE, err |-> e, version |-> 0, lists |-> <<>>,
     wrapper_header |-> None, was_compressed |-> FALSE, trailing_data |-> None]

---------------------------------------------------------------------------
(* ParReader.  A reader is [data, pos, size, err]; err # "ok" is a raised  *)
(* ValueError on its way out, and every later read is skipped.             *)

ParReader(d) == [data |-> d, pos |-> 0, size |-> Len(d), err |-> "ok"]

Raise(r, e) == [r EXCEPT !.err = e]

\* struct.unpack_from('<B'/'<H'/'<I'/'<Q', data, p): n bytes at 0-based p
RECURSIVE UnpackLE(_, _, _)
UnpackLE(d, p, n) ==
    IF n = 0 THEN 0 ELSE d[p + 1] + 256 * UnpackLE(d, p + 1, n - 1)

\* two's complement reading of an n-byte little-endian value ('<b', '<i')
UnpackSignedLE(d, p, n) ==
    LET top == d[p + n]
        low == UnpackLE(d, p, n - 1)
        w   == IF n = 1 THEN 1 ELSE 16777216
    IN  IF top >= 128 THEN (top - 256) * w + low ELSE top * w + low

\* the position moved before the bound is tested
_advance_moves_first(r, n) ==
    IF r.err # "ok" THEN [r |-> r, v |-> 0]
    ELSE IF r.pos + n > r.size
    THEN [r |-> Raise([r EXCEPT !.pos = r.pos + n], "past_end"), v |-> 0]
    ELSE [r |-> [r EXCEPT !.pos = r.pos + n], v |-> r.pos]

_advance(r, n) ==
    IF r.err # "ok" THEN [r |-> r, v |-> 0]
    ELSE IF r.pos + n > r.size THEN [r |-> Raise(r, "past_end"), v |-> 0]
    ELSE [r |-> [r EXCEPT !.pos = r.pos + n], v |-> r.pos]

read_bytes(r, n) ==
    IF r.err # "ok" THEN [r |-> r, v |-> <<>>]
    ELSE IF r.pos + n > r.size THEN [r |-> Raise(r, "past_end"), v |-> <<>>]
    ELSE [r |-> [r EXCEPT !.pos = r.pos + n], v |-> Slice(r.data, r.pos, r.pos + n)]

\* the value unpacked at the position _advance returned
Unpacked(d, a, n) ==
    [r |-> a.r, v |-> IF a.r.err = "ok" THEN UnpackLE(d, a.v, n) ELSE 0]

UnpackedSigned(d, a, n) ==
    [r |-> a.r, v |-> IF a.r.err = "ok" THEN UnpackSignedLE(d, a.v, n) ELSE 0]

\* the n bytes at the position _advance returned, kept as bytes
Raw(d, a, n) ==
    [r |-> a.r, v |-> IF a.r.err = "ok" THEN Slice(d, a.v, a.v + n) ELSE <<>>]

read_u8(r) == Unpacked(r.data, _advance(r, 1), 1)

read_i8(r) == UnpackedSigned(r.data, _advance(r, 1), 1)

read_u16(r) == Unpacked(r.data, _advance(r, 2), 2)

read_u32(r) == Unpacked(r.data, _advance(r, 4), 4)

read_i32(r) == UnpackedSigned(r.data, _advance(r, 4), 4)

\* struct.unpack('<f') widens the binary32 to the double of a Python float:
\* a signalling NaN (exponent all ones, top fraction bit clear, fraction not
\* 0) comes out quiet, its top fraction bit set
Widened(b) ==
    IF /\ Len(b) = 4
       /\ b[4] % 128 = 127 /\ b[3] >= 128
       /\ b[3] % 128 < 64
       /\ (b[3] % 128 # 0 \/ b[2] # 0 \/ b[1] # 0)
    THEN [b EXCEPT ![3] = @ + 64]
    ELSE b

UnpackedFloat(x) == [r |-> x.r, v |-> Widened(x.v)]

\* the float is kept as the binary32 pattern of the value unpacked
read_f32(r) == UnpackedFloat(Raw(r.data, _advance(r, 4), 4))

\* the 64-bit value is kept as its eight little-endian bytes; 0 is ZERO64
read_u64(r) == Raw(r.data, _advance(r, 8), 8)

ZERO64 == <<0, 0, 0, 0, 0, 0, 0, 0>>
ONE64 == <<1, 0, 0, 0, 0, 0, 0, 0>>

\* raw.decode('ascii', errors='replace'): a byte above 127 becomes U+FFFD
REPLACEMENT_CHAR == 65533
DecodeAscii(raw) ==
    [i \in 1..Len(raw) |-> IF raw[i] < 128 THEN raw[i] ELSE REPLACEMENT_CHAR]

Decoded(raw) == [r |-> raw.r, v |-> DecodeAscii(raw.v)]

\* the ceiling itself taken as unreasonable: length >= 1000000
read_string_body_inclusive(l) ==
    IF l.r.err # "ok" THEN [r |-> l.r, v |-> <<>>]
    ELSE IF l.v >= MAX_STRING_LENGTH THEN [r |-> Raise(l.r, "str_len"), v |-> <<>>]
    ELSE IF l.v = 0 THEN [r |-> l.r, v |-> <<>>]
    ELSE Decoded(read_bytes(l.r, l.v))

\* read_delphi_string after its length l is read
read_string_body(l) ==
    IF l.r.err # "ok" THEN [r |-> l.r, v |-> <<>>]
    ELSE IF l.v > MAX_STRING_LENGTH THEN [r |-> Raise(l.r, "str_len"), v |-> <<>>]
    ELSE IF l.v = 0 THEN [r |-> l.r, v |-> <<>>]
    ELSE Decoded(read_bytes(l.r, l.v))

read_delphi_string(r) == read_string_body(read_u32(r))

---------------------------------------------------------------------------
(* read_par *)

\* A loop that appends what it reads carries [r, v]: the reader and the
\* list built so far.  Push is one append, made after the read x.
Push(st, x) == [r |-> x.r, v |-> Append(st.v, x.v)]

Start(r) == [r |-> r, v |-> <<>>]

\* one pass of the loop body of _read_extra_array
read_array_elem(r, fmt_char) ==
    IF fmt_char = "i" THEN read_i32(r)
    ELSE IF fmt_char = "f" THEN read_f32(r)
    ELSE read_u32(r)

ElemItem(fmt_char, x) == [r |-> x.r, v |-> IF fmt_char = "f" THEN x.v ELSE <<x.v>>]

RECURSIVE read_array_loop(_, _, _)
read_array_loop(st, n, fmt_char) ==
    IF n = 0 \/ st.r.err # "ok" THEN st
    ELSE read_array_loop(Push(st, ElemItem(fmt_char, read_array_elem(st.r, fmt_char))),
                         n - 1, fmt_char)

ListKind(fmt_char) == IF fmt_char = "f" THEN "list_float" ELSE "list_int"

AsList(kind, values) == [r |-> values.r, v |-> PyList(kind, values.v)]

\* the branch of _read_extra_array after a non-zero check value
read_array_values(length, fmt_char) ==
    AsList(ListKind(fmt_char), read_array_loop(Start(length.r), length.v, fmt_char))

read_array_checked(check, fmt_char) ==
    IF check.r.err # "ok" THEN [r |-> check.r, v |-> PyList(ListKind(fmt_char), <<>>)]
    ELSE IF check.v = ZERO64 THEN [r |-> check.r, v |-> PyList(ListKind(fmt_char), <<>>)]
    ELSE read_array_values(read_u32(check.r), fmt_char)

_read_extra_array(reader, fmt_char) == read_array_checked(read_u64(reader), fmt_char)

RECURSIVE read_string_loop(_, _)
read_string_loop(st, n) ==
    IF n = 0 \/ st.r.err # "ok" THEN st
    ELSE read_string_loop(Push(st, read_delphi_string(st.r)), n - 1)

read_string_values(length) ==
    AsList("list_str", read_string_loop(Start(length.r), length.v))

read_string_checked(check) ==
    IF check.r.err # "ok" THEN [r |-> check.r, v |-> PyList("list_str", <<>>)]
    ELSE IF check.v = ZERO64 THEN [r |-> check.r, v |-> PyList("list_str", <<>>)]
    ELSE read_string_values(read_u32(check.r))

_read_extra_string_array(reader) == read_string_checked(read_u64(reader))

AsInt(a) == [r |-> a.r, v |-> PyInt(a.v)]
AsFloat(a) == [r |-> a.r, v |-> PyFloat(a.v)]
AsStr(a) == [r |-> a.r, v |-> PyStr(a.v)]
AsField(dtype, x) == [r |-> x.r, v |-> ParField(dtype, x.v)]

\* the chain with an else branch that reads nothing and goes on
read_field_lenient(r, dtype) ==
    AsField(dtype,
        IF dtype = TYPE_INT32 THEN AsInt(read_i32(r))
        ELSE IF dtype = TYPE_FLOAT32 THEN AsFloat(read_f32(r))
        ELSE IF dtype = TYPE_UINT32 THEN AsInt(read_u32(r))
        ELSE IF dtype = TYPE_STRING THEN AsStr(read_delphi_string(r))
        ELSE IF dtype = TYPE_ARRAY_INT32 THEN _read_extra_array(r, "i")
        ELSE IF dtype = TYPE_ARRAY_FLOAT THEN _read_extra_array(r, "f")
        ELSE IF dtype = TYPE_ARRAY_UINT32 THEN _read_extra_array(r, "I")
        ELSE IF dtype = TYPE_ARRAY_STR THEN _read_extra_string_array(r)
        ELSE [r |-> r, v |-> PyInt(0)])

\* the if/elif chain of read_par on dtype
read_field(r, dtype) ==
    AsField(dtype,
        IF dtype = TYPE_INT32 THEN AsInt(read_i32(r))
        ELSE IF dtype = TYPE_FLOAT32 THEN AsFloat(read_f32(r))
        ELSE IF dtype = TYPE_UINT32 THEN AsInt(read_u32(r))
        ELSE IF dtype = TYPE_STRING THEN AsStr(read_delphi_string(r))
        ELSE IF dtype = TYPE_ARRAY_INT32 THEN _read_extra_array(r, "i")
        ELSE IF dtype = TYPE_ARRAY_FLOAT THEN _read_extra_array(r, "f")
        ELSE IF dtype = TYPE_ARRAY_UINT32 THEN _read_extra_array(r, "I")
        ELSE IF dtype = TYPE_ARRAY_STR THEN _read_extra_string_array(r)
        ELSE [r |-> Raise(r, "bad_type"), v |-> PyInt(0)])

\* type_list = [reader.read_u8() for _ in range(field_count)]
RECURSIVE read_type_list(_, _)
read_type_list(st, n) ==
    IF n = 0 \/ st.r.err # "ok" THEN st
    ELSE read_type_list(Push(st, read_u8(st.r)), n - 1)

\* for dtype in type_list: ... fields.append(ParField(dtype, val))
RECURSIVE read_fields(_, _, _)
read_fields(st, type_list, i) ==
    IF i > Len(type_list) \/ st.r.err # "ok" THEN st
    ELSE read_fields(Push(st, read_field(st.r, type_list[i])), type_list, i + 1)

\* one more read of the kind named, appended to what st holds
ThenStr(st) == Push(st, read_delphi_string(st.r))
ThenI8(st) == Push(st, read_i8(st.r))
ThenU16(st) == Push(st, read_u16(st.r))
ThenU32(st) == Push(st, read_u32(st.r))

\* the header of an entry, in reading order:
\* <<name, unknown_byte, field_count, unknown_u16a, unknown_u16b>>
read_entry_header(r) == ThenU16(ThenU16(ThenU16(ThenI8(ThenStr(Start(r))))))

MakeEntry(h, fields) ==
    [r |-> fields.r, v |-> ParEntry(h.v[1], h.v[2], h.v[4], h.v[5], fields.v)]

read_entry_fields(h, types) == MakeEntry(h, read_fields(Start(types.r), types.v, 1))

read_entry_types(h) == read_entry_fields(h, read_type_list(Start(h.r), h.v[3]))

read_entry(r) == read_entry_types(read_entry_header(r))

RECURSIVE read_entries(_, _)
read_entries(st, n) ==
    IF n = 0 \/ st.r.err # "ok" THEN st
    ELSE read_entries(Push(st, read_entry(st.r)), n - 1)

\* the header of a list: <<unknown1, unknown2, entry_count>>
read_list_header(r) == ThenU32(ThenU32(ThenU32(Start(r))))

MakeList(h, entries) == [r |-> entries.r, v |-> ParList(h.v[1], h.v[2], entries.v)]

read_list_entries(h) == MakeList(h, read_entries(Start(h.r), h.v[3]))

read_list(r) == read_list_entries(read_list_header(r))

RECURSIVE read_lists(_, _)
read_lists(st, n) ==
    IF n = 0 \/ st.r.err # "ok" THEN st
    ELSE read_lists(Push(st, read_list(st.r)), n - 1)

\* what read_par returns once the lists are read: the bytes that follow the
\* last list are kept as trailing_data
read_par_result(d, h, lists) ==
    IF lists.r.err # "ok" THEN ParError(lists.r.err)
    ELSE [ParFile(h.v[1], lists.v) EXCEPT
            !.trailing_data = IF lists.r.pos < lists.r.size
                              THEN Some(SliceFrom(d, lists.r.pos))
                              ELSE None]

\* h holds <<version, list_count, pad>>
read_par_lists(d, h) == read_par_result(d, h, read_lists(Start(h.r), h.v[2]))

\* the magic compared only after version, list count and pad are read
read_par_magic_late(d, magic) ==
    IF magic.r.err # "ok" THEN ParError(magic.r.err)
    ELSE IF ThenU32(ThenU32(ThenU32(Start(magic.r)))).r.err # "ok"
    THEN ParError(ThenU32(ThenU32(ThenU32(Start(magic.r)))).r.err)
    ELSE IF magic.v # PAR_MAGIC THEN ParError("bad_magic")
    ELSE read_par_lists(d, ThenU32(ThenU32(ThenU32(Start(magic.r)))))

read_par_magic(d, magic) ==
    IF magic.r.err # "ok" THEN ParError(magic.r.err)
    ELSE IF magic.v # PAR_MAGIC THEN ParError("bad_magic")
    ELSE read_par_lists(d, ThenU32(ThenU32(ThenU32(Start(magic.r)))))

read_par(d) == read_par_magic(d, read_bytes(ParReader(d), 4))

---------------------------------------------------------------------------
(* ParWriter: every write_* gives the bytes it appends to the buffer *)

\* struct.pack of the low n bytes of v, little-endian (two's complement)
RECURSIVE PackLE(_, _)
PackLE(v, n) ==
    IF n = 0 THEN <<>> ELSE <<v % 256>> \o PackLE(v \div 256, n - 1)

write_u8(v) == PackLE(v % 256, 1)
write_i8(v) == PackLE(v, 1)
write_u16(v) == PackLE(v % 65536, 2)
write_u32(v) == PackLE(v, 4)
write_i32(v) == PackLE(v, 4)
write_f32(bits) == bits
write_u64(v) == PackLE(v, 4) \o <<0, 0, 0, 0>>

\* s.encode('ascii', errors='replace'): a non-ASCII character becomes '?'
QUESTION_MARK == 63
EncodeAscii(s) == [i \in 1..Len(s) |-> IF s[i] < 128 THEN s[i] ELSE QUESTION_MARK]

write_delphi_string(s) ==
    LET encoded == EncodeAscii(s)
    IN  write_u32(Len(encoded)) \o encoded

---------------------------------------------------------------------------
(* write_par *)

\* int(v), float(v), str(v) of a value that already has that type
IntOf(item) == item[1]

write_array_elem(item, fmt_char) ==
    IF fmt_char = "i" THEN write_i32(IntOf(item))
    ELSE IF fmt_char = "f" THEN write_f32(item)
    ELSE write_u32(IntOf(item))

\* the writer without its test for an empty list
_write_extra_array_unguarded(values, fmt_char) ==
    write_u64(1) \o write_u32(Len(values.items))
    \o Concat([i \in 1..Len(values.items) |->
                   write_array_elem(values.items[i], fmt_char)])

_write_extra_array(values, fmt_char) ==
    IF values.items = <<>> THEN write_u64(0)
    ELSE write_u64(1) \o write_u32(Len(values.items))
         \o Concat([i \in 1..Len(values.items) |->
                        write_array_elem(values.items[i], fmt_char)])

_write_extra_string_array(values) ==
    IF values.items = <<>> THEN write_u64(0)
    ELSE write_u64(1) \o write_u32(Len(values.items))
         \o Concat([i \in 1..Len(values.items) |->
                        write_delphi_string(values.items[i])])

\* the if/elif chain of write_par on dtype; an unknown dtype writes nothing
write_field(field) ==
    LET dtype == field.dtype
        val   == field.value
    IN  IF dtype = TYPE_INT32 THEN write_i32(IntOf(val.items[1]))
        ELSE IF dtype = TYPE_FLOAT32 THEN write_f32(val.items[1])
        ELSE IF dtype = TYPE_UINT32 THEN write_u32(IntOf(val.items[1]))
        ELSE IF dtype = TYPE_STRING THEN write_delphi_string(val.items[1])
        ELSE IF dtype = TYPE_ARRAY_INT32 THEN _write_extra_array(val, "i")
        ELSE IF dtype = TYPE_ARRAY_FLOAT THEN _write_extra_array(val, "f")
        ELSE IF dtype = TYPE_ARRAY_UINT32 THEN _write_extra_array(val, "I")
        ELSE IF dtype = TYPE_ARRAY_STR THEN _write_extra_string_array(val)
        ELSE <<>>

write_entry(entry) ==
    write_delphi_string(entry.name)
    \o write_i8(entry.unknown_byte)
    \o write_u16(Len(entry.fields))
    \o write_u16(entry.unknown_u16a)
    \o write_u16(entry.unknown_u16b)
    \o Concat([i \in 1..Len(entry.fields) |-> write_u8(entry.fields[i].dtype)])
    \o Concat([i \in 1..Len(entry.fields) |-> write_field(entry.fields[i])])

write_list(pl) ==
    write_u32(pl.unknown1)
    \o write_u32(pl.unknown2)
    \o write_u32(Len(pl.entries))
    \o Concat([i \in 1..Len(pl.entries) |-> write_entry(pl.entries[i])])

write_par(p) ==
    LET result == PAR_MAGIC
                  \o write_u32(p.version)
                  \o write_u32(Len(p.lists))
                  \o write_u32(0)
                  \o Concat([i \in 1..Len(p.lists) |-> write_list(p.lists[i])])
    IN  IF p.trailing_data.some /\ p.trailing_data.v # <<>>
        THEN result \o p.trailing_data.v
        ELSE result

---------------------------------------------------------------------------
(* zlib.  compress writes a stream a zlib decoder accepts: the two header  *)
(* bytes, one final stored block (LEN, NLEN, the bytes) and the Adler-32   *)
(* of the content.  decompressobj().decompress reads one stream from the   *)
(* start of its input and leaves what follows it in unused_data.           *)

ZLIB_CMF == 120
ZLIB_FLG == 156
ADLER_MOD == 65521

\* <<sum of d[lo..hi], sum of (Len(d) - i + 1) * d[i] over lo..hi>>
RECURSIVE AdlerPair(_, _, _)
AdlerPair(d, lo, hi) ==
    IF lo > hi THEN <<0, 0>>
    ELSE IF lo = hi THEN <<d[lo], (Len(d) - lo + 1) * d[lo]>>
    ELSE LET mid == (lo + hi) \div 2
             l == AdlerPair(d, lo, mid)
             r == AdlerPair(d, mid + 1, hi)
         IN  <<l[1] + r[1], l[2] + r[2]>>

Adler32(d) ==
    LET s == AdlerPair(d, 1, Len(d))
        a == (1 + s[1]) % ADLER_MOD
        b == (Len(d) + s[2]) % ADLER_MOD
    IN  <<b \div 256, b % 256, a \div 256, a % 256>>

zlib_compress(d) ==
    <<ZLIB_CMF, ZLIB_FLG, 1>>
    \o PackLE(Len(d), 2) \o PackLE(65535 - Len(d), 2)
    \o d \o Adler32(d)

\* [err, data, unused_data]; a stream that ends early gives what it holds
zlib_decompress(raw) ==
    LET bad == [err |-> TRUE, data |-> <<>>, unused_data |-> <<>>]
    IN  IF Len(raw) < 2 THEN [err |-> FALSE, data |-> <<>>, unused_data |-> <<>>]
        ELSE IF raw[1] # ZLIB_CMF \/ (raw[1] * 256 + raw[2]) % 31 # 0 THEN bad
        ELSE IF Len(raw) < 7 THEN [err |-> FALSE, data |-> <<>>, unused_data |-> <<>>]
        ELSE IF raw[3] # 1 THEN bad
        ELSE LET len  == UnpackLE(raw, 3, 2)
                 nlen == UnpackLE(raw, 5, 2)
             IN  IF len + nlen # 65535 THEN bad
                 ELSE IF Len(raw) < 7 + len + 4
                      THEN [err |-> FALSE, data |-> Slice(raw, 7, 7 + len),
                            unused_data |-> <<>>]
                 ELSE IF Slice(raw, 7 + len, 7 + len + 4) # Adler32(Slice(raw, 7, 7 + len))
                      THEN bad
                 ELSE [err |-> FALSE, data |-> Slice(raw, 7, 7 + len),
                       unused_data |-> SliceFrom(raw, 7 + len + 4)]

---------------------------------------------------------------------------
(* ZLIB WRAPPER *)

EnvelopeError(e) ==
    [ok |-> FALSE, err |-> e, par_data |-> <<>>, wrapper |-> None, was_compressed |-> FALSE]

EnvelopeResult(par_data, wrapper, was_compressed) ==
    [ok |-> TRUE, err |-> "", par_data |-> par_data, wrapper |-> wrapper,
     was_compressed |-> was_compressed]

\* the decode without the magic test on stream 2
decompress_par_file_unchecked(raw_data) ==
    IF Len(raw_data) < 4 \/ raw_data[1] # ZLIB_CMF
    THEN IF Slice(raw_data, 0, 4) = PAR_MAGIC
         THEN EnvelopeResult(raw_data, None, FALSE)
         ELSE EnvelopeError("unknown_format")
    ELSE LET dec1 == zlib_decompress(raw_data)
         IN  IF dec1.err THEN EnvelopeError("zlib_error")
             ELSE IF dec1.unused_data = <<>>
             THEN IF Slice(dec1.data, 0, 4) = PAR_MAGIC
                  THEN EnvelopeResult(dec1.data, None, TRUE)
                  ELSE EnvelopeError("single_not_par")
             ELSE LET dec2 == zlib_decompress(dec1.unused_data)
                  IN  IF dec2.err THEN EnvelopeError("zlib_error")
                      ELSE EnvelopeResult(dec2.data, Some(dec1.data), TRUE)

decompress_par_file(raw_data) ==
    IF Len(raw_data) < 4 \/ raw_data[1] # ZLIB_CMF
    THEN IF Slice(raw_data, 0, 4) = PAR_MAGIC
         THEN EnvelopeResult(raw_data, None, FALSE)
         ELSE EnvelopeError("unknown_format")
    ELSE LET dec1 == zlib_decompress(raw_data)
         IN  IF dec1.err THEN EnvelopeError("zlib_error")
             ELSE IF dec1.unused_data = <<>>
             THEN IF Slice(dec1.data, 0, 4) = PAR_MAGIC
                  THEN EnvelopeResult(dec1.data, None, TRUE)
                  ELSE EnvelopeError("single_not_par")
             ELSE LET dec2 == zlib_decompress(dec1.unused_data)
                  IN  IF dec2.err THEN EnvelopeError("zlib_error")
                      ELSE IF Slice(dec2.data, 0, 4) # PAR_MAGIC
                      THEN EnvelopeError("stream2_not_par")
                      ELSE EnvelopeResult(dec2.data, Some(dec1.data), TRUE)

\* "if wrapper:" in place of "if wrapper is not None:"
compress_par_file_truthy(par_data, wrapper) ==
    IF wrapper.some /\ wrapper.v # <<>>
    THEN zlib_compress(wrapper.v) \o zlib_compress(par_data)
    ELSE zlib_compress(par_data)

compress_par_file(par_data, wrapper) ==
    IF wrapper.some
    THEN zlib_compress(wrapper.v) \o zlib_compress(par_data)
    ELSE zlib_compress(par_data)

---------------------------------------------------------------------------
(* Python floats.  A float of the program is the widening of a binary32,   *)
(* kept as its pattern <<b0, b1, b2, b3>> (little-endian).  The arithmetic *)
(* below is exact for zero, for magnitudes below 2^-17 and from 1 up to    *)
(* 2^7, for the infinities and for NaN: the floats the input files hold.   *)

FloatSign(f) == f[4] \div 128
FloatExp(f) == (f[4] % 128) * 2 + f[3] \div 128
FloatMan(f) == (f[3] % 128) * 65536 + f[2] * 256 + f[1]

IsNaN(f) == FloatExp(f) = 255 /\ FloatMan(f) # 0
IsInf(f) == FloatExp(f) = 255 /\ FloatMan(f) = 0
IsZero(f) == FloatExp(f) = 0 /\ FloatMan(f) = 0
IsSmall(f) == FloatExp(f) <= 109
FloatMagInt(f) == 8388608 + FloatMan(f)

RECURSIVE Pow2(_)
Pow2(n) == IF n = 0 THEN 1 ELSE 2 * Pow2(n - 1)

\* a small float in units of 2^-47 (exponents below 103 do not occur)
SmallUnits(f) ==
    LET mag == IF IsZero(f) THEN 0 ELSE FloatMagInt(f) * Pow2(FloatExp(f) - 103)
    IN  IF FloatSign(f) = 1 THEN 0 - mag ELSE mag

IntAbs(n) == IF n < 0 THEN 0 - n ELSE n

\* 1e-7 lies between 14073748 and 14073749 units of 2^-47
TOLERANCE_UNITS == 14073748

\* abs(a - b) < 1e-7
FloatClose(a, b) ==
    IF IsNaN(a) \/ IsNaN(b) \/ IsInf(a) \/ IsInf(b) THEN FALSE
    ELSE IF IsSmall(a) /\ IsSmall(b)
         THEN IntAbs(SmallUnits(a) - SmallUnits(b)) <= TOLERANCE_UNITS
    ELSE IF IsSmall(a) \/ IsSmall(b) THEN FALSE
    ELSE a = b

\* a == b on floats (distinct objects)
PyFloatEq(a, b) ==
    IF IsNaN(a) \/ IsNaN(b) THEN FALSE
    ELSE a = b \/ (IsZero(a) /\ IsZero(b))

---------------------------------------------------------------------------
(* str(), repr() and format() *)

RECURSIVE NatToStr(_)
NatToStr(n) ==
    IF n < 10 THEN <<48 + n>> ELSE NatToStr(n \div 10) \o <<48 + (n % 10)>>

IntToStr(n) == IF n < 0 THEN <<45>> \o NatToStr(0 - n) ELSE NatToStr(n)

\* n as exactly k decimal digits
RECURSIVE Digits(_, _)
Digits(n, k) == IF k = 0 THEN <<>> ELSE Digits(n \div 10, k - 1) \o <<48 + (n % 10)>>

\* v == int(v), for a finite float
FloatIsIntegral(f) ==
    \/ IsZero(f)
    \/ FloatExp(f) >= 150
    \/ /\ FloatExp(f) >= 127
       /\ FloatMagInt(f) % Pow2(150 - FloatExp(f)) = 0

\* the first k decimals of num/den and what is left: [q, r], num < den
RECURSIVE Decimals(_, _, _, _)
Decimals(num, den, k, q) ==
    IF k = 0 THEN [q |-> q, r |-> num]
    ELSE Decimals((num * 10) % den, den, k - 1, q * 10 + (num * 10) \div den)

SignStr(f) == IF FloatSign(f) = 1 THEN <<45>> ELSE <<>>

\* f"{v:.1f}" of an integral float below 2^24
FormatF1(f) ==
    IF IsZero(f) THEN SignStr(f) \o <<48, 46, 48>>
    ELSE SignStr(f) \o NatToStr(FloatMagInt(f) \div Pow2(150 - FloatExp(f))) \o <<46, 48>>

\* f"{v:.4f}" of a float that is not integral: correctly rounded, ties to even
FormatF4(f) ==
    IF IsSmall(f) THEN SignStr(f) \o <<48, 46, 48, 48, 48, 48>>
    ELSE LET den  == Pow2(150 - FloatExp(f))
             ip   == FloatMagInt(f) \div den
             d    == Decimals(FloatMagInt(f) % den, den, 4, 0)
             up   == 2 * d.r > den \/ (2 * d.r = den /\ d.q % 2 = 1)
             q    == IF up THEN d.q + 1 ELSE d.q
         IN  SignStr(f)
             \o NatToStr(IF q = 10000 THEN ip + 1 ELSE ip)
             \o <<46>> \o Digits(q % 10000, 4)

\* repr(x) of a float: the shortest digits that read back as the same double
ReprFloat(f) ==
    IF IsNaN(f) THEN <<110, 97, 110>>
    ELSE IF IsInf(f) THEN SignStr(f) \o <<105, 110, 102>>
    ELSE IF FloatIsIntegral(f) THEN FormatF1(f)
    ELSE IF f = <<0, 0, 128, 51>>
         THEN <<53, 46, 57, 54, 48, 52, 54, 52, 52, 55, 55, 53, 51, 57, 48, 54, 51,
                101, 45, 48, 56>>
    ELSE FormatF4(f)

\* repr(s) of a str without quotes, backslashes or unprintable characters
ReprStr(s) == <<39>> \o s \o <<39>>

ReprItem(kind, item) ==
    IF kind = "list_int" THEN IntToStr(item[1])
    ELSE IF kind = "list_float" THEN ReprFloat(item)
    ELSE ReprStr(item)

RECURSIVE JoinRepr(_, _)
JoinRepr(kind, items) ==
    IF items = <<>> THEN <<>>
    ELSE IF Len(items) = 1 THEN ReprItem(kind, items[1])
    ELSE ReprItem(kind, items[1]) \o <<44, 32>> \o JoinRepr(kind, Tail(items))

\* str(v) of a list
ListStr(v) == <<91>> \o JoinRepr(v.kind, v.items) \o <<93>>

EM_DASH == <<8212>>
STR_ITEMS == <<32, 105, 116, 101, 109, 115, 93>>
STR_FIELDS == <<32, 102, 105, 101, 108, 100, 115, 41>>

\* f'({len(entry.fields)} fields)'
FieldsSummary(entry) == <<40>> \o NatToStr(Len(entry.fields)) \o STR_FIELDS

---------------------------------------------------------------------------
(* Compare: Core Logic.  Indices in diff records are 0-based as in the     *)
(* program; the i-th element of a Python list x is x[i + 1] here.          *)

\* a raised exception leaves the handler: [err |-> TRUE]
StrOk(str) == [err |-> FALSE, s |-> str]
StrRaise == [err |-> TRUE, s |-> <<>>]

\* field is None or Some(ParField); int(v) raises on an infinity or a NaN
_cmp_field_value_str(field) ==
    IF ~field.some THEN StrOk(EM_DASH)
    ELSE LET v == field.v.value
         IN  IF v.kind = "float"
             THEN IF IsNaN(v.items[1]) \/ IsInf(v.items[1]) THEN StrRaise
                  ELSE IF FloatIsIntegral(v.items[1]) THEN StrOk(FormatF1(v.items[1]))
                  ELSE StrOk(FormatF4(v.items[1]))
             ELSE IF IsList(v)
             THEN IF Len(v.items) <= 4 THEN StrOk(ListStr(v))
                  ELSE StrOk(<<91>> \o NatToStr(Len(v.items)) \o STR_ITEMS)
             ELSE IF v.kind = "int" THEN StrOk(IntToStr(v.items[1][1]))
             ELSE StrOk(v.items[1])

\* v1 == v2 of Python for two values of the same type
PyValueEq(v1, v2) ==
    IF v1.kind # v2.kind THEN FALSE
    ELSE IF v1.kind \in {"float", "list_float"}
         THEN /\ Len(v1.items) = Len(v2.items)
              /\ \A i \in 1..Len(v1.items) : PyFloatEq(v1.items[i], v2.items[i])
    ELSE v1.items = v2.items

_cmp_fields_equal(f1, f2) ==
    IF f1.dtype # f2.dtype THEN FALSE
    ELSE IF f1.value.kind = "float" /\ f2.value.kind = "float"
         THEN FloatClose(f1.value.items[1], f2.value.items[1])
    ELSE PyValueEq(f1.value, f2.value)

\* FieldLabels.get: no label file is loaded and DEFAULT_LABELS has labels
\* for entries of 6 and of 65 fields only
field_labels_get(field_count, fi) == <<>>

DiffRecord(type, li, name, fi, label, sval, ival, oval, sli, sei, ili, iei) ==
    [type |-> type, list_idx |-> li, entry_name |-> name, field_idx |-> fi,
     field_label |-> label, source_val |-> sval, input_val |-> ival,
     original_val |-> oval, src_li |-> sli, src_ei |-> sei,
     inp_li |-> ili, inp_ei |-> iei]

\* The loops of _cmp_run_compare append to cmp_diffs; they carry
\* [err, diffs]: the records appended so far, and err once an exception
\* has left the handler (nothing is appended after it).
Appended(st, d) == [err |-> FALSE, diffs |-> Append(st.diffs, d)]
Raised(st) == [err |-> TRUE, diffs |-> st.diffs]

\* the records of a list that only one side has, in entry order
WholeListRecords(type, li, entries) ==
    [k \in 1..Len(entries) |->
        IF type = "input_only"
        THEN DiffRecord("input_only", li, entries[k].name, -1, <<>>, EM_DASH,
                        FieldsSummary(entries[k]), EM_DASH, -1, -1, li, k - 1)
        ELSE DiffRecord("source_only", li, entries[k].name, -1, <<>>,
                        FieldsSummary(entries[k]), EM_DASH, EM_DASH, li, k - 1, -1, -1)]

\* x_by_name[name]: the dict keeps the last entry of a name; 0 when absent
ByName(entries, name) ==
    LET hits == {k \in 1..Len(entries) : entries[k].name = name}
    IN  IF hits = {} THEN 0 ELSE CHOOSE k \in hits : \A j \in hits : j <= k

\* s1 < s2 on str
RECURSIVE StrLess(_, _)
StrLess(s1, s2) ==
    IF s2 = <<>> THEN FALSE
    ELSE IF s1 = <<>> THEN TRUE
    ELSE IF Head(s1) # Head(s2) THEN Head(s1) < Head(s2)
    ELSE StrLess(Tail(s1), Tail(s2))

\* the last name of the sorted order, taken first
Least_greatest(names) == CHOOSE x \in names : \A y \in names : y = x \/ StrLess(y, x)

Least(names) == CHOOSE x \in names : \A y \in names : y = x \/ StrLess(x, y)

\* sorted(names)
RECURSIVE Sorted(_, _)
Sorted(names, acc) ==
    IF names = {} THEN acc
    ELSE Sorted(names \ {Least(names)}, Append(acc, Least(names)))

FieldAt(entry, fi) ==
    IF fi < Len(entry.fields) THEN Some(entry.fields[fi + 1]) ELSE None

\* the append of a changed record, after the three display strings are made
AppendChanged(st, sval, ival, oval, name, li, sei, iei, field_count, fi) ==
    IF sval.err \/ ival.err \/ oval.err THEN Raised(st)
    ELSE Appended(st, DiffRecord("changed", li, name, fi,
                                 field_labels_get(field_count, fi),
                                 sval.s, ival.s, oval.s, li, sei, li, iei))

\* the body of the loop over fi
CompareField(st, sf, inf_f, of, name, li, sei, iei, field_count, fi) ==
    IF sf.some /\ inf_f.some /\ _cmp_fields_equal(sf.v, inf_f.v) THEN st
    ELSE AppendChanged(st, _cmp_field_value_str(sf), _cmp_field_value_str(inf_f),
                       IF of.some THEN _cmp_field_value_str(of) ELSE StrOk(EM_DASH),
                       name, li, sei, iei, field_count, fi)

MaxFieldsOf(se, ie) ==
    IF Len(se.fields) > Len(ie.fields) THEN Len(se.fields) ELSE Len(ie.fields)

\* the loop over fi of an entry both sides have; stops at a raised exception
RECURSIVE CompareFields(_, _, _, _, _, _, _, _, _, _)
CompareFields(st, se, ie, oe, name, li, sei, iei, field_count, fi) ==
    IF st.err \/ fi >= MaxFieldsOf(se, ie) THEN st
    ELSE CompareFields(
             CompareField(st, FieldAt(se, fi), FieldAt(ie, fi),
                          IF oe.some THEN FieldAt(oe.v, fi) ELSE None,
                          name, li, sei, iei, field_count, fi),
             se, ie, oe, name, li, sei, iei, field_count, fi + 1)

\* orig_by_name.get(name)
OrigEntry(orig_list, ok) == IF ok > 0 THEN Some(orig_list.v.entries[ok]) ELSE None

\* the body of the loop over sorted(all_names); sk and ik are the places of
\* the name in the source list and in the input list
CompareName(st, name, sk, ik, src_list, inp_list, orig_list, li, field_count) ==
    IF ik = 0
    THEN Appended(st, DiffRecord("source_only", li, name, -1, <<>>,
                                 FieldsSummary(src_list.entries[sk]), EM_DASH, EM_DASH,
                                 li, sk - 1, -1, -1))
    ELSE IF sk = 0
    THEN Appended(st, DiffRecord("input_only", li, name, -1, <<>>,
                                 EM_DASH, FieldsSummary(inp_list.entries[ik]), EM_DASH,
                                 -1, -1, li, ik - 1))
    ELSE CompareFields(st, src_list.entries[sk], inp_list.entries[ik],
                       OrigEntry(orig_list,
                                 IF orig_list.some THEN ByName(orig_list.v.entries, name)
                                 ELSE 0),
                       name, li, sk - 1, ik - 1, field_count, 0)

\* the loop over sorted(all_names) of a list both sides have
RECURSIVE CompareNames(_, _, _, _, _, _, _, _)
CompareNames(st, names, i, src_list, inp_list, orig_list, li, field_count) ==
    IF st.err \/ i > Len(names) THEN st
    ELSE CompareNames(
             CompareName(st, names[i], ByName(src_list.entries, names[i]),
                         ByName(inp_list.entries, names[i]),
                         src_list, inp_list, orig_list, li, field_count),
             names, i + 1, src_list, inp_list, orig_list, li, field_count)

EntryNames(pl) == {pl.entries[k].name : k \in 1..Len(pl.entries)}

\* field_count = len(src_list.entries[0].fields) if src_list.entries else ...
FieldCountOf(src_list, inp_list) ==
    IF src_list.entries # <<>> THEN Len(src_list.entries[1].fields)
    ELSE IF inp_list.entries # <<>> THEN Len(inp_list.entries[1].fields)
    ELSE 0

\* the body of the loop over li
CompareList(st, src, inp, orig, li) ==
    IF li >= Len(src.lists)
    THEN [err |-> FALSE,
          diffs |-> st.diffs \o WholeListRecords("input_only", li, inp.lists[li + 1].entries)]
    ELSE IF li >= Len(inp.lists)
    THEN [err |-> FALSE,
          diffs |-> st.diffs \o WholeListRecords("source_only", li, src.lists[li + 1].entries)]
    ELSE CompareNames(st,
                      Sorted(EntryNames(src.lists[li + 1]) \cup EntryNames(inp.lists[li + 1]),
                             <<>>),
                      1, src.lists[li + 1], inp.lists[li + 1],
                      IF orig.ok /\ li < Len(orig.lists) THEN Some(orig.lists[li + 1])
                      ELSE None,
                      li, FieldCountOf(src.lists[li + 1], inp.lists[li + 1]))

MaxListsOf(src, inp) ==
    IF Len(src.lists) > Len(inp.lists) THEN Len(src.lists) ELSE Len(inp.lists)

\* the loop over li, from the records st on
RECURSIVE CompareListsFrom(_, _, _, _, _)
CompareListsFrom(st, src, inp, orig, li) ==
    IF st.err \/ li >= MaxListsOf(src, inp) THEN st
    ELSE CompareListsFrom(CompareList(st, src, inp, orig, li), src, inp, orig, li + 1)

\* self.cmp_diffs = [] and the loop over every list index
CompareLists(src, inp, orig) ==
    CompareListsFrom([err |-> FALSE, diffs |-> <<>>], src, inp, orig, 0)

---------------------------------------------------------------------------
(* Compare: Merge Logic.  The merge works on [src, added_count,            *)
(* changed_count, err, shared]: src is the source Model being changed in   *)
(* place, err an IndexError that ended the handler, and shared the list    *)
(* objects that a source field and an input field both refer to, each as   *)
(* [sli, sei, sfi, ili, iei, ifi] (0-based positions of the two fields).   *)

\* copy.deepcopy(x) of a list: an equal list that is a new object
copy_deepcopy(value) == [value |-> value, same_object |-> FALSE]

\* ParField(f.dtype, f.value): the list object itself, not a copy of it
CopyField_shared(f) ==
    [field |-> ParField(f.dtype, f.value), same_object |-> IsList(f.value)]

\* ParField(f.dtype, copy.deepcopy(f.value) if isinstance(f.value, list) else f.value)
\* scalars are immutable, so only a list can be shared in a way that shows
CopyField(f) ==
    LET c == IF IsList(f.value) THEN copy_deepcopy(f.value)
             ELSE [value |-> f.value, same_object |-> FALSE]
    IN  [field |-> ParField(f.dtype, c.value), same_object |-> c.same_object]

SharedAt(sli, sei, sfi, ili, iei, ifi) ==
    [sli |-> sli, sei |-> sei, sfi |-> sfi, ili |-> ili, iei |-> iei, ifi |-> ifi]

\* a padding that builds the field list anew: fi + 1 fields ParField(0, 0)
PadFields_rebuilt(fields, fi) ==
    [k \in 1..(IF Len(fields) > fi THEN Len(fields) ELSE fi + 1) |-> ParField(0, PyInt(0))]

\* a padding loop that runs once more: while len(src_entry.fields) <= fi + 1
PadFields_one_more(fields, fi) ==
    IF Len(fields) > fi + 1 THEN fields
    ELSE fields \o [k \in 1..(fi + 2 - Len(fields)) |-> ParField(0, PyInt(0))]

\* while len(src_entry.fields) <= fi: src_entry.fields.append(ParField(0, 0))
PadFields(fields, fi) ==
    IF Len(fields) > fi THEN fields
    ELSE fields \o [k \in 1..(fi + 1 - Len(fields)) |-> ParField(0, PyInt(0))]

MergeChanged(m, inp, d) ==
    LET sli == d.src_li
        sei == d.src_ei
        ili == d.inp_li
        iei == d.inp_ei
        fi  == d.field_idx
    IN  IF ~(sli >= 0 /\ sei >= 0 /\ sli < Len(m.src.lists)) THEN m
        ELSE IF ~(sei < Len(m.src.lists[sli + 1].entries)) THEN m
        ELSE IF ~(ili >= 0 /\ iei >= 0 /\ ili < Len(inp.lists)) THEN m
        ELSE IF ~(iei < Len(inp.lists[ili + 1].entries)) THEN m
        ELSE
        LET src_entry == m.src.lists[sli + 1].entries[sei + 1]
            inp_entry == inp.lists[ili + 1].entries[iei + 1]
        IN  IF ~(fi < Len(inp_entry.fields)) THEN m
            ELSE
            LET c      == CopyField(inp_entry.fields[fi + 1])
                fields == [PadFields(src_entry.fields, fi) EXCEPT ![fi + 1] = c.field]
                kept   == {x \in m.shared : ~(x.sli = sli /\ x.sei = sei /\ x.sfi = fi)}
            IN  [m EXCEPT
                   !.src.lists[sli + 1].entries[sei + 1].fields = fields,
                   !.shared = IF c.same_object
                              THEN kept \cup {SharedAt(sli, sei, fi, ili, iei, fi)}
                              ELSE kept,
                   !.changed_count = m.changed_count + 1]

\* a list loop that runs once more: while len(src.lists) <= ili + 1
PadLists_one_more(lists, ili) ==
    IF Len(lists) > ili + 1 THEN lists
    ELSE lists \o [k \in 1..(ili + 2 - Len(lists)) |-> ParList(0, 0, <<>>)]

\* while len(src.lists) <= ili: src.lists.append(ParList())
PadLists(lists, ili) ==
    IF Len(lists) > ili THEN lists
    ELSE lists \o [k \in 1..(ili + 1 - Len(lists)) |-> ParList(0, 0, <<>>)]

\* the branch without its "if not exists" test
MergeInputOnly_unchecked(m, inp, d) ==
    LET ili == d.inp_li
        iei == d.inp_ei
    IN  IF ~(ili >= 0 /\ iei >= 0 /\ ili < Len(inp.lists)) THEN m
        ELSE IF ~(iei < Len(inp.lists[ili + 1].entries)) THEN [m EXCEPT !.err = TRUE]
        ELSE
        LET inp_entry == inp.lists[ili + 1].entries[iei + 1]
            lists     == PadLists(m.src.lists, ili)
            new_entry == ParEntry(inp_entry.name, inp_entry.unknown_byte,
                                  inp_entry.unknown_u16a, inp_entry.unknown_u16b,
                                  inp_entry.fields)
        IN  [m EXCEPT
               !.src.lists = [lists EXCEPT ![ili + 1].entries = @ \o <<new_entry>>],
               !.added_count = m.added_count + 1]

\* the branch with a test that looks at the first entry of the list only
MergeInputOnly_first_only(m, inp, d) ==
    LET ili == d.inp_li
        iei == d.inp_ei
    IN  IF ~(ili >= 0 /\ iei >= 0 /\ ili < Len(inp.lists)) THEN m
        ELSE IF ~(iei < Len(inp.lists[ili + 1].entries)) THEN [m EXCEPT !.err = TRUE]
        ELSE
        LET inp_entry == inp.lists[ili + 1].entries[iei + 1]
            lists     == PadLists(m.src.lists, ili)
            exists    == /\ lists[ili + 1].entries # <<>>
                         /\ lists[ili + 1].entries[1].name = inp_entry.name
        IN  IF exists THEN [m EXCEPT !.src.lists = lists]
            ELSE [m EXCEPT
                    !.src.lists = [lists EXCEPT ![ili + 1].entries = @ \o <<inp_entry>>],
                    !.added_count = m.added_count + 1]

MergeInputOnly(m, inp, d) ==
    LET ili == d.inp_li
        iei == d.inp_ei
    IN  IF ~(ili >= 0 /\ iei >= 0 /\ ili < Len(inp.lists)) THEN m
        ELSE IF ~(iei < Len(inp.lists[ili + 1].entries)) THEN [m EXCEPT !.err = TRUE]
        ELSE
        LET inp_entry == inp.lists[ili + 1].entries[iei + 1]
            lists     == PadLists(m.src.lists, ili)
            copies    == [k \in 1..Len(inp_entry.fields) |-> CopyField(inp_entry.fields[k])]
            new_entry == ParEntry(inp_entry.name, inp_entry.unknown_byte,
                                  inp_entry.unknown_u16a, inp_entry.unknown_u16b,
                                  [k \in 1..Len(copies) |-> copies[k].field])
            exists    == \E k \in 1..Len(lists[ili + 1].entries) :
                             lists[ili + 1].entries[k].name = new_entry.name
            sei       == Len(lists[ili + 1].entries)
        IN  IF exists THEN [m EXCEPT !.src.lists = lists]
            ELSE [m EXCEPT
                    !.src.lists = [lists EXCEPT ![ili + 1].entries = @ \o <<new_entry>>],
                    !.shared = @ \cup {SharedAt(ili, sei, k - 1, ili, iei, k - 1) :
                                         k \in {j \in 1..Len(copies) : copies[j].same_object}},
                    !.added_count = m.added_count + 1]

\* a loop body that counts every selected record it does not recognise
MergeRecord_counts_all(m, inp, d) ==
    IF d.type = "changed" THEN MergeChanged(m, inp, d)
    ELSE IF d.type = "input_only" THEN MergeInputOnly(m, inp, d)
    ELSE [m EXCEPT !.changed_count = m.changed_count + 1]

\* the body of the loop over the selected records
MergeRecord(m, inp, d) ==
    IF d.type = "changed" THEN MergeChanged(m, inp, d)
    ELSE IF d.type = "input_only" THEN MergeInputOnly(m, inp, d)
    ELSE m

\* for _, d in selected, from the i-th record (0-based) on; ends at an IndexError
RECURSIVE MergeLoop(_, _, _, _, _)
MergeLoop(m, inp, diffs, checks, i) ==
    IF i >= Len(diffs) \/ m.err THEN m
    ELSE MergeLoop(IF i \in checks THEN MergeRecord(m, inp, diffs[i + 1]) ELSE m,
                   inp, diffs, checks, i + 1)

\* selected = [(i, d) for i, d in enumerate(cmp_diffs) if cmp_checks.get(i, False)]
Selected(diffs, checks) == {i \in 0..(Len(diffs) - 1) : i \in checks}

MergeStart(src, shared) ==
    [src |-> src, added_count |-> 0, changed_count |-> 0, err |-> FALSE, shared |-> shared]

\* the part of _cmp_merge after the confirmation
ApplyMerge(src, inp, diffs, checks, shared) ==
    MergeLoop(MergeStart(src, shared), inp, diffs, checks, 0)

---------------------------------------------------------------------------
(* Input files of the codec: buffers written out field by field from the   *)
(* container format, with every choice the format leaves to the file       *)
(* (reserved word, presence marker, declared counts, string bytes, tail).  *)

MaxLists == 2          \* lists in an input file
MaxEntries == 2        \* entries in each list of an input file
MaxFields == 2         \* fields in each entry of an input file
MaxArrayCount == 2     \* elements in an array field of an input file

WireString(bytes) == PackLE(Len(bytes), 4) \o bytes

\* binary32 patterns: 1.0, 2^-24, quiet NaN, +infinity
F32_ONE == <<0, 0, 128, 63>>
F32_TINY == <<0, 0, 128, 51>>
F32_NAN == <<0, 0, 192, 127>>
F32_INF == <<0, 0, 128, 127>>

\* the k-th element of an input array of type tag t, as wire bytes
WireElem(t, k) ==
    IF t = TYPE_ARRAY_INT32 THEN (IF k % 2 = 1 THEN <<5, 0, 0, 0>> ELSE <<255, 255, 255, 255>>)
    ELSE IF t = TYPE_ARRAY_FLOAT THEN (IF k % 2 = 1 THEN F32_ONE ELSE F32_TINY)
    ELSE IF t = TYPE_ARRAY_UINT32 THEN (IF k % 2 = 1 THEN <<12, 0, 0, 0>> ELSE <<0, 1, 0, 0>>)
    ELSE (IF k % 2 = 1 THEN WireString(<<65, 200>>) ELSE WireString(<<>>))

\* an array field: marker (8 bytes), then for a non-zero marker the count and n elements
WireArray(t, marker, n) ==
    IF marker = ZERO64 THEN marker
    ELSE marker \o PackLE(n, 4) \o Concat([k \in 1..n |-> WireElem(t, k)])

TWO64 == <<2, 0, 0, 0, 0, 0, 0, 0>>
HIGH64 == <<0, 0, 0, 0, 1, 0, 0, 0>>
Markers == {ZERO64, ONE64, TWO64, HIGH64}
ArrayTypes == {TYPE_ARRAY_INT32, TYPE_ARRAY_FLOAT, TYPE_ARRAY_UINT32, TYPE_ARRAY_STR}

UNKNOWN_TYPE == 9

ScalarWireFields ==
    { [t |-> TYPE_INT32, b |-> <<255, 255, 255, 255>>],
      [t |-> TYPE_INT32, b |-> <<42, 0, 0, 0>>],
      [t |-> TYPE_FLOAT32, b |-> F32_ONE],
      [t |-> TYPE_UINT32, b |-> <<12, 0, 0, 0>>],
      [t |-> TYPE_STRING, b |-> WireString(<<65>>)],
      [t |-> TYPE_STRING, b |-> WireString(<<200>>)],
      [t |-> UNKNOWN_TYPE, b |-> <<>>] }

ArrayWireFields ==
    { [t |-> TYPE_ARRAY_INT32, b |-> WireArray(TYPE_ARRAY_INT32, ZERO64, 0)],
      [t |-> TYPE_ARRAY_INT32, b |-> WireArray(TYPE_ARRAY_INT32, ONE64, MaxArrayCount)],
      [t |-> TYPE_ARRAY_FLOAT, b |-> WireArray(TYPE_ARRAY_FLOAT, ONE64, 0)],
      [t |-> TYPE_ARRAY_UINT32, b |-> WireArray(TYPE_ARRAY_UINT32, TWO64, 1)],
      [t |-> TYPE_ARRAY_STR, b |-> WireArray(TYPE_ARRAY_STR, ONE64, MaxArrayCount)] }

CodecWireFields == ScalarWireFields \cup ArrayWireFields

SeqsUpTo(S, n) == UNION {[1..k -> S] : k \in 0..n}

WireEntry(name, ub, u16a, u16b, fields) ==
    WireString(name) \o <<ub>> \o PackLE(Len(fields), 2)
    \o PackLE(u16a, 2) \o PackLE(u16b, 2)
    \o [i \in 1..Len(fields) |-> fields[i].t]
    \o Concat([i \in 1..Len(fields) |-> fields[i].b])

WireList(u1, u2, entries) ==
    PackLE(u1, 4) \o PackLE(u2, 4) \o PackLE(Len(entries), 4) \o Concat(entries)

WireFile(version, pad, lists, tail) ==
    PAR_MAGIC \o PackLE(version, 4) \o PackLE(Len(lists), 4) \o PackLE(pad, 4)
    \o Concat(lists) \o tail

Repeat(x, n) == [i \in 1..n |-> x]

\* the last k bytes dropped
CutTail(b, k) == Slice(b, 0, Len(b) - k)

CodecEntries ==
    { WireEntry(nm.name, nm.ub, nm.a, 0, fs) :
        nm \in { [name |-> <<84, 101, 115, 116>>, ub |-> 0, a |-> 0],
                 [name |-> <<200, 66>>, ub |-> 255, a |-> 513] },
        fs \in SeqsUpTo(CodecWireFields, MaxFields) }

FileVariants ==
    { [pad |-> 0, tail |-> <<>>, cut |-> 0],
      [pad |-> 1, tail |-> <<>>, cut |-> 0],
      [pad |-> 0, tail |-> <<7, 0>>, cut |-> 0],
      [pad |-> 0, tail |-> <<>>, cut |-> 1],
      [pad |-> 0, tail |-> <<>>, cut |-> 17] }

CodecFiles ==
    { CutTail(WireFile(PAR_VERSION_TW1, fv.pad,
                       Repeat(WireList(nl - 1, 0, Repeat(e, ne)), nl), fv.tail), fv.cut) :
        fv \in FileVariants, nl \in 0..MaxLists, ne \in 0..MaxEntries, e \in CodecEntries }

---------------------------------------------------------------------------
(* Files the compare tab loads *)

MaxLoads == 2          \* files loaded into the compare tab in one run

NameA == <<79, 114, 99, 48, 49>>
NameB == <<79, 114, 99, 57, 57>>

WI10 == [t |-> TYPE_INT32, b |-> <<10, 0, 0, 0>>]
WI12 == [t |-> TYPE_INT32, b |-> <<12, 0, 0, 0>>]
WU10 == [t |-> TYPE_UINT32, b |-> <<10, 0, 0, 0>>]
WF1 == [t |-> TYPE_FLOAT32, b |-> F32_ONE]
WF15 == [t |-> TYPE_FLOAT32, b |-> <<0, 0, 192, 63>>]
WFZERO == [t |-> TYPE_FLOAT32, b |-> <<0, 0, 0, 0>>]
WFTINY == [t |-> TYPE_FLOAT32, b |-> F32_TINY]
WFINF == [t |-> TYPE_FLOAT32, b |-> F32_INF]
WFNAN == [t |-> TYPE_FLOAT32, b |-> F32_NAN]
WSTR == [t |-> TYPE_STRING, b |-> WireString(<<65>>)]
WARR == [t |-> TYPE_ARRAY_INT32, b |-> WireArray(TYPE_ARRAY_INT32, ONE64, MaxArrayCount)]
WARR0 == [t |-> TYPE_ARRAY_INT32, b |-> WireArray(TYPE_ARRAY_INT32, ZERO64, 0)]
WSARR == [t |-> TYPE_ARRAY_STR, b |-> WireArray(TYPE_ARRAY_STR, ONE64, 1)]
WFARRNAN == [t |-> TYPE_ARRAY_FLOAT, b |-> ONE64 \o PackLE(1, 4) \o F32_NAN]

CmpFieldSeqs ==
    { <<>>, <<WI10>>, <<WI12>>, <<WU10>>, <<WF1>>, <<WF15>>, <<WFZERO>>, <<WFTINY>>,
      <<WFINF>>, <<WFNAN>>, <<WFARRNAN>>, <<WI10, WARR>>, <<WI10, WARR0>>,
      <<WI12, WSTR, WSARR>> }

EA(fs) == WireEntry(NameA, 0, 0, 0, fs)
EB(fs) == WireEntry(NameB, 1, 2, 3, fs)

CmpPlain(lists) == WireFile(PAR_VERSION_TW1, 0, lists, <<>>)

CmpFiles ==
    { CmpPlain(<<WireList(0, 0, <<EA(fs)>>)>>) : fs \in CmpFieldSeqs }
    \cup
    { CmpPlain(<<>>),
      CmpPlain(<<WireList(0, 0, <<>>)>>),
      CmpPlain(<<WireList(0, 0, <<EA(<<WI10>>), EB(<<WI10, WARR>>)>>)>>),
      CmpPlain(<<WireList(0, 0, <<EB(<<WI12>>), EA(<<WI10>>)>>)>>),
      CmpPlain(<<WireList(0, 0, <<EA(<<WI10>>), EA(<<WI12>>)>>)>>),
      CmpPlain(<<WireList(0, 0, <<EB(<<WI12>>), EA(<<WFINF>>)>>)>>),
      CmpPlain(<<WireList(7, 8, <<EA(<<WI10>>)>>), WireList(0, 0, <<EB(<<WI10, WARR>>)>>)>>),
      CmpPlain(<<WireList(0, 0, <<>>), WireList(0, 0, <<EA(<<WI12>>), EA(<<WI10>>)>>)>>),
      WireFile(PAR_VERSION_TW1, 0, <<WireList(0, 0, <<EA(<<WI12>>)>>)>>, <<7, 0>>),
      compress_par_file(CmpPlain(<<WireList(0, 0, <<EB(<<WI12, WARR>>)>>)>>), Some(<<1, 2>>)),
      compress_par_file(CmpPlain(<<WireList(0, 0, <<EA(<<WI10>>)>>)>>), None) }

NoneFile == ParError("None")

\* what _cmp_load_par_file returns for the bytes of the chosen file
_cmp_load_par_file(raw_data) ==
    LET env == decompress_par_file(raw_data)
    IN  IF ~env.ok THEN NoneFile
        ELSE LET p == read_par(env.par_data)
             IN  IF ~p.ok THEN NoneFile
                 ELSE [p EXCEPT !.wrapper_header = env.wrapper,
                                !.was_compressed = env.was_compressed]

CmpModels == {_cmp_load_par_file(f) : f \in CmpFiles} \ {NoneFile}

CmpOriginals ==
    { _cmp_load_par_file(CmpPlain(<<WireList(0, 0, <<EA(<<WI12>>)>>)>>)),
      _cmp_load_par_file(CmpPlain(<<WireList(0, 0, <<EA(<<WFINF>>)>>)>>)) }

---------------------------------------------------------------------------
(* The compare tab *)

MergeInfo(text, n1, n2) == [text |-> text, n1 |-> n1, n2 |-> n2]

AllRows(diffs) == 0..(Len(diffs) - 1)

CmpInit ==
    /\ cmp_source = NoneFile
    /\ cmp_input = NoneFile
    /\ cmp_original = NoneFile
    /\ cmp_diffs = <<>>
    /\ cmp_checks = {}
    /\ cmp_tree = {}
    /\ cmp_merge_info = MergeInfo("", 0, 0)
    /\ cmp_shared = {}
    /\ cmp_last = "init"
    /\ loads = 0
    /\ edits = 0

_cmp_load_source ==
    /\ loads < MaxLoads
    /\ \E p \in CmpModels : cmp_source' = p
    /\ cmp_shared' = {}
    /\ cmp_last' = "load_source"
    /\ loads' = loads + 1
    /\ UNCHANGED <<cmp_input, cmp_original, cmp_diffs, cmp_checks, cmp_tree, cmp_merge_info>>
    /\ UNCHANGED <<codecVars, arrayVars, envVars, edits>>
    /\ UNCHANGED readerVars

_cmp_load_input ==
    /\ loads < MaxLoads
    /\ \E p \in CmpModels : cmp_input' = p
    /\ cmp_shared' = {}
    /\ cmp_last' = "load_input"
    /\ loads' = loads + 1
    /\ UNCHANGED <<cmp_source, cmp_original, cmp_diffs, cmp_checks, cmp_tree, cmp_merge_info>>
    /\ UNCHANGED <<codecVars, arrayVars, envVars, edits>>
    /\ UNCHANGED readerVars

_cmp_set_original ==
    /\ loads < MaxLoads
    /\ \E p \in CmpOriginals : cmp_original' = p
    /\ cmp_last' = "set_original"
    /\ loads' = loads + 1
    /\ UNCHANGED <<cmp_source, cmp_input, cmp_diffs, cmp_checks, cmp_tree, cmp_merge_info,
                   cmp_shared>>
    /\ UNCHANGED <<codecVars, arrayVars, envVars, edits>>
    /\ UNCHANGED readerVars

\* the exception of _cmp_field_value_str leaves the handler before the
\* checkboxes are initialised and before the tree is filled again
_cmp_run_compare ==
    /\ cmp_source.ok
    /\ cmp_input.ok
    /\ LET res == CompareLists(cmp_source, cmp_input, cmp_original)
       IN  /\ cmp_diffs' = res.diffs
           /\ cmp_checks' = {}
           /\ cmp_tree' = IF res.err THEN cmp_tree ELSE AllRows(res.diffs)
           /\ cmp_merge_info' = IF res.err THEN cmp_merge_info
                                ELSE MergeInfo("found", Len(res.diffs), 0)
           /\ cmp_last' = IF res.err THEN "compare_raised" ELSE "compare"
    /\ UNCHANGED <<cmp_source, cmp_input, cmp_original, cmp_shared, loads>>
    /\ UNCHANGED <<codecVars, arrayVars, envVars, edits>>
    /\ UNCHANGED readerVars

\* a click in the check column of the row "D{idx}"
_cmp_on_tree_click ==
    /\ \E idx \in cmp_tree :
        /\ idx < Len(cmp_diffs)
        /\ cmp_diffs[idx + 1].type # "source_only"
        /\ cmp_checks' = IF idx \in cmp_checks THEN cmp_checks \ {idx}
                         ELSE cmp_checks \cup {idx}
    /\ cmp_merge_info' = MergeInfo("selected", Cardinality(cmp_checks'), Len(cmp_diffs))
    /\ cmp_last' = "click"
    /\ UNCHANGED <<cmp_source, cmp_input, cmp_original, cmp_diffs, cmp_tree,
                   cmp_shared, loads>>
    /\ UNCHANGED <<codecVars, arrayVars, envVars, edits>>
    /\ UNCHANGED readerVars

\* a Select All that checks every row, the SourceOnly rows included
_cmp_select_all_every_row ==
    /\ cmp_checks' = AllRows(cmp_diffs)
    /\ cmp_tree' = AllRows(cmp_diffs)
    /\ cmp_merge_info' = MergeInfo("selected", Cardinality(cmp_checks'), Len(cmp_diffs))
    /\ cmp_last' = "select_all"
    /\ UNCHANGED <<cmp_source, cmp_input, cmp_original, cmp_diffs, cmp_shared, loads>>
    /\ UNCHANGED <<codecVars, arrayVars, envVars, edits>>
    /\ UNCHANGED readerVars

_cmp_select_all ==
    /\ cmp_checks' = cmp_checks \cup
                     {i \in AllRows(cmp_diffs) : cmp_diffs[i + 1].type # "source_only"}
    /\ cmp_tree' = AllRows(cmp_diffs)
    /\ cmp_merge_info' = MergeInfo("selected", Cardinality(cmp_checks'), Len(cmp_diffs))
    /\ cmp_last' = "select_all"
    /\ UNCHANGED <<cmp_source, cmp_input, cmp_original, cmp_diffs, cmp_shared, loads>>
    /\ UNCHANGED <<codecVars, arrayVars, envVars, edits>>
    /\ UNCHANGED readerVars

_cmp_deselect_all ==
    /\ cmp_checks' = {}
    /\ cmp_tree' = AllRows(cmp_diffs)
    /\ cmp_merge_info' = MergeInfo("selected", 0, Len(cmp_diffs))
    /\ cmp_last' = "deselect_all"
    /\ UNCHANGED <<cmp_source, cmp_input, cmp_original, cmp_diffs, cmp_shared, loads>>
    /\ UNCHANGED <<codecVars, arrayVars, envVars, edits>>
    /\ UNCHANGED readerVars

\* the user confirms; an IndexError leaves the label as it was
_cmp_merge ==
    /\ cmp_source.ok
    /\ cmp_input.ok
    /\ Selected(cmp_diffs, cmp_checks) # {}
    /\ LET m == ApplyMerge(cmp_source, cmp_input, cmp_diffs, cmp_checks, cmp_shared)
       IN  /\ cmp_source' = m.src
           /\ cmp_shared' = m.shared
           /\ cmp_merge_info' = IF m.err THEN cmp_merge_info
                                ELSE MergeInfo("merged", m.changed_count, m.added_count)
           /\ cmp_last' = IF m.err THEN "merge_raised" ELSE "merge"
    /\ UNCHANGED <<cmp_input, cmp_original, cmp_diffs, cmp_checks, cmp_tree, loads>>
    /\ UNCHANGED <<codecVars, arrayVars, envVars, edits>>
    /\ UNCHANGED readerVars

CmpNext ==
    \/ _cmp_load_source
    \/ _cmp_load_input
    \/ _cmp_set_original
    \/ _cmp_run_compare
    \/ _cmp_on_tree_click
    \/ _cmp_select_all
    \/ _cmp_deselect_all
    \/ _cmp_merge


---------------------------------------------------------------------------
(* The codec as a state machine: a buffer is decoded, the Model re-encoded *)

CodecIdle == data = <<>> /\ par = NoneFile /\ out = <<>> /\ cphase = "idle"

ArrayIdle ==
    /\ afield = [t |-> 0, marker |-> ZERO64, n |-> 0, cut |-> 0]
    /\ adata = <<>>
    /\ ares = [r |-> ParReader(<<>>), v |-> ParField(0, PyInt(0))]
    /\ aout = <<>>
    /\ aphase = "idle"

EnvIdle ==
    /\ env_par_data = <<>>
    /\ env_wrapper = None
    /\ env_file = <<>>
    /\ env_result = EnvelopeError("")
    /\ ephase = "idle"

CmpIdle == CmpInit

NoRead == [op |-> "none", n |-> 0, pos |-> 0, err |-> "ok", v |-> <<>>]

\* read_par is not running
NoFrame ==
    [pc |-> "idle", version |-> 0, list_count |-> 0, lists |-> <<>>,
     lh |-> <<>>, entry_count |-> 0, entries |-> <<>>,
     eh |-> <<>>, type_list |-> <<>>, fields |-> <<>>,
     dtype |-> 0, length |-> 0, values |-> <<>>]

ReaderIdle == desc = <<>> /\ rd = ParReader(<<>>) /\ rop = NoRead /\ frame = NoFrame

InitCodec ==
    /\ data \in CodecFiles
    /\ par = NoneFile
    /\ out = <<>>
    /\ cphase = "input"
    /\ ArrayIdle /\ EnvIdle /\ CmpIdle /\ ReaderIdle

Decode ==
    /\ cphase = "input"
    /\ par' = read_par(data)
    /\ cphase' = "decoded"
    /\ UNCHANGED <<data, out, arrayVars, envVars, cmpVars>>
    /\ UNCHANGED readerVars

Encode ==
    /\ cphase = "decoded"
    /\ par.ok
    /\ out' = write_par(par)
    /\ cphase' = "encoded"
    /\ UNCHANGED <<data, par, arrayVars, envVars, cmpVars>>
    /\ UNCHANGED readerVars

NextCodec == Decode \/ Encode

SpecCodec == InitCodec /\ [][NextCodec]_vars

---------------------------------------------------------------------------
(* One array field through the reader's and the writer's type dispatch *)

ArrayCuts == {0, 2}

InitArray ==
    /\ afield \in [t : ArrayTypes, marker : Markers, n : 0..MaxArrayCount, cut : ArrayCuts]
    /\ adata = CutTail(WireArray(afield.t, afield.marker, afield.n) \o <<9>>, afield.cut)
    /\ ares = [r |-> ParReader(<<>>), v |-> ParField(0, PyInt(0))]
    /\ aout = <<>>
    /\ aphase = "input"
    /\ CodecIdle /\ EnvIdle /\ CmpIdle /\ ReaderIdle

DecodeArray ==
    /\ aphase = "input"
    /\ ares' = read_field(ParReader(adata), afield.t)
    /\ aphase' = "decoded"
    /\ UNCHANGED <<afield, adata, aout, codecVars, envVars, cmpVars>>
    /\ UNCHANGED readerVars

EncodeArray ==
    /\ aphase = "decoded"
    /\ ares.r.err = "ok"
    /\ aout' = write_field(ares.v)
    /\ aphase' = "encoded"
    /\ UNCHANGED <<afield, adata, ares, codecVars, envVars, cmpVars>>
    /\ UNCHANGED readerVars

NextArray == DecodeArray \/ EncodeArray

SpecArray == InitArray /\ [][NextArray]_vars

---------------------------------------------------------------------------
(* The envelope: a container and a wrapper are written to a file and the   *)
(* file is read back                                                       *)

MaxEnvLen == 3         \* bytes of an input container after the magic

EnvBytes == {0, 120, 255}

\* what write_par hands over: bytes that begin with the magic
EnvContainers == {PAR_MAGIC \o t : t \in SeqsUpTo(EnvBytes, MaxEnvLen)}

\* what a load kept as wrapper_header: None, or the bytes of stream 1
EnvWrappers ==
    {None} \cup {Some(t) : t \in SeqsUpTo({0, 120}, 2)} \cup {Some(PAR_MAGIC \o <<1>>)}

InitEnvelope ==
    /\ env_par_data \in EnvContainers
    /\ env_wrapper \in EnvWrappers
    /\ env_file = <<>>
    /\ env_result = EnvelopeError("")
    /\ ephase = "input"
    /\ CodecIdle /\ ArrayIdle /\ CmpIdle /\ ReaderIdle

Compress ==
    /\ ephase = "input"
    /\ env_file' = compress_par_file(env_par_data, env_wrapper)
    /\ ephase' = "compressed"
    /\ UNCHANGED <<env_par_data, env_wrapper, env_result, codecVars, arrayVars, cmpVars>>
    /\ UNCHANGED readerVars

Decompress ==
    /\ ephase = "compressed"
    /\ env_result' = decompress_par_file(env_file)
    /\ ephase' = "decompressed"
    /\ UNCHANGED <<env_par_data, env_wrapper, env_file, codecVars, arrayVars, cmpVars>>
    /\ UNCHANGED readerVars

NextEnvelope == Compress \/ Decompress

SpecEnvelope == InitEnvelope /\ [][NextEnvelope]_vars

---------------------------------------------------------------------------
(* Files as they are found on disk: one or two compressed streams, whole,  *)
(* cut short, or followed by further bytes; the payloads with and without  *)
(* the magic.                                                              *)

EnvPayloads ==
    {<<>>, <<80>>, PAR_MAGIC, PAR_MAGIC \o <<1>>, <<80, 65, 82, 1>>, <<1, 2, 3, 4, 5>>}

EnvHeaders == {<<>>, <<1, 2>>, PAR_MAGIC}

EnvTails == {<<>>, <<9>>, <<120>>}

EnvCuts == {0, 1, 5}

EnvStreams ==
    {zlib_compress(c) : c \in EnvPayloads}
    \cup {zlib_compress(h) \o zlib_compress(c) : h \in EnvHeaders, c \in EnvPayloads}

EnvFiles ==
    {CutTail(f, k) \o t : f \in EnvStreams, k \in EnvCuts, t \in EnvTails}
    \cup {<<ZLIB_CMF>>, <<ZLIB_CMF, ZLIB_FLG>>, <<ZLIB_CMF, 0, 0, 0, 0>>,
          <<ZLIB_CMF, ZLIB_FLG, 1, 0, 0, 0, 0>>}

InitUnwrap ==
    /\ env_par_data = <<>>
    /\ env_wrapper = None
    /\ env_file \in EnvFiles
    /\ env_result = EnvelopeError("")
    /\ ephase = "compressed"
    /\ CodecIdle /\ ArrayIdle /\ CmpIdle /\ ReaderIdle

NextUnwrap == Decompress

SpecUnwrap == InitUnwrap /\ [][NextUnwrap]_vars

---------------------------------------------------------------------------
(* The compare tab: files are loaded, compared, records checked and merged *)

InitCmp == CmpInit /\ CodecIdle /\ ArrayIdle /\ EnvIdle /\ ReaderIdle

SpecCmp == InitCmp /\ [][CmpNext]_vars

Spec == SpecCmp

---------------------------------------------------------------------------
(* The merge on a selection its caller supplies.  _cmp_merge takes the     *)
(* selection from cmp_checks as it finds it; here cmp_checks is any set of *)
(* rows of the diff of the two loaded files, the rows the click handlers   *)
(* refuse included.                                                        *)

InitMerge ==
    /\ cmp_source \in CmpModels
    /\ cmp_input \in CmpModels
    /\ cmp_original = NoneFile
    /\ cmp_diffs = CompareLists(cmp_source, cmp_input, cmp_original).diffs
    /\ cmp_checks \in SUBSET AllRows(cmp_diffs)
    /\ cmp_tree = AllRows(cmp_diffs)
    /\ cmp_merge_info = MergeInfo("selected", Cardinality(cmp_checks), Len(cmp_diffs))
    /\ cmp_shared = {}
    /\ cmp_last = "selection"
    /\ loads = MaxLoads
    /\ edits = 0
    /\ CodecIdle /\ ArrayIdle /\ EnvIdle /\ ReaderIdle

NextMerge == _cmp_merge

SpecMerge == InitMerge /\ [][NextMerge]_vars

---------------------------------------------------------------------------
(* A change to the input Model after a merge.  No handler of the compare   *)
(* tab edits cmp_input; these are the two changes Python allows on the     *)
(* objects the merge has read: binding field.value to a new object, and    *)
(* assigning to an item of a list value, which every holder of that list   *)
(* object sees.  Places are 1-based positions [li, ei, fi].                *)

MaxEdits == 1          \* changes made to the input Model in one run

FieldPlaces(p) ==
    UNION { UNION { { [li |-> li, ei |-> ei, fi |-> fi] :
                        fi \in 1..Len(p.lists[li].entries[ei].fields) } :
                    ei \in 1..Len(p.lists[li].entries) } :
            li \in 1..Len(p.lists) }

FieldOf(p, pl) == p.lists[pl.li].entries[pl.ei].fields[pl.fi]

EditItem(kind) ==
    IF kind = "list_int" THEN <<99>>
    ELSE IF kind = "list_float" THEN F32_ONE
    ELSE <<90>>

NewValue(kind) ==
    IF kind = "int" THEN PyInt(99)
    ELSE IF kind = "float" THEN PyFloat(F32_ONE)
    ELSE IF kind = "str" THEN PyStr(<<90>>)
    ELSE PyList(kind, <<EditItem(kind)>>)

\* the source fields that hold the list object of the input field at pl
SharedWith(shared, pl) ==
    {x \in shared : x.ili = pl.li - 1 /\ x.iei = pl.ei - 1 /\ x.ifi = pl.fi - 1}

\* value[0] = item, seen through every source field that holds the object
RECURSIVE SetSharedItem(_, _, _)
SetSharedItem(src, holders, item) ==
    IF holders = {} THEN src
    ELSE LET x == CHOOSE h \in holders : TRUE
         IN  SetSharedItem(
                 [src EXCEPT !.lists[x.sli + 1].entries[x.sei + 1].fields[x.sfi + 1]
                                  .value.items[1] = item],
                 holders \ {x}, item)

\* inp_field.value[0] = item
input_set_item ==
    /\ cmp_last = "merge"
    /\ edits < MaxEdits
    /\ \E pl \in FieldPlaces(cmp_input) :
        /\ IsList(FieldOf(cmp_input, pl).value)
        /\ FieldOf(cmp_input, pl).value.items # <<>>
        /\ cmp_input' =
               [cmp_input EXCEPT !.lists[pl.li].entries[pl.ei].fields[pl.fi].value.items[1] =
                                     EditItem(FieldOf(cmp_input, pl).value.kind)]
        /\ cmp_source' = SetSharedItem(cmp_source, SharedWith(cmp_shared, pl),
                                       EditItem(FieldOf(cmp_input, pl).value.kind))
    /\ cmp_last' = "input_set_item"
    /\ UNCHANGED <<cmp_original, cmp_diffs, cmp_checks, cmp_tree, cmp_merge_info,
                   cmp_shared, loads>>
    /\ edits' = edits + 1
    /\ UNCHANGED <<codecVars, arrayVars, envVars>>
    /\ UNCHANGED readerVars

\* inp_field.value = a new object
input_replace_value ==
    /\ cmp_last = "merge"
    /\ edits < MaxEdits
    /\ \E pl \in FieldPlaces(cmp_input) :
        /\ cmp_input' =
               [cmp_input EXCEPT !.lists[pl.li].entries[pl.ei].fields[pl.fi].value =
                                     NewValue(FieldOf(cmp_input, pl).value.kind)]
        /\ cmp_shared' = cmp_shared \ SharedWith(cmp_shared, pl)
    /\ cmp_last' = "input_replace_value"
    /\ UNCHANGED <<cmp_source, cmp_original, cmp_diffs, cmp_checks, cmp_tree,
                   cmp_merge_info, loads>>
    /\ edits' = edits + 1
    /\ UNCHANGED <<codecVars, arrayVars, envVars>>
    /\ UNCHANGED readerVars

\* the run is followed up to the first change of the input
NextAlias ==
    \/ edits = 0 /\ CmpNext
    \/ input_set_item
    \/ input_replace_value

SpecAlias == InitCmp /\ [][NextAlias]_vars

---------------------------------------------------------------------------
(* The compare with a baseline.  Source and input are loaded; the baseline *)
(* may be set before or after a compare.                                    *)

InitBaseline ==
    /\ cmp_source \in CmpModels
    /\ cmp_input \in CmpModels
    /\ cmp_original = NoneFile
    /\ cmp_diffs = <<>>
    /\ cmp_checks = {}
    /\ cmp_tree = {}
    /\ cmp_merge_info = MergeInfo("", 0, 0)
    /\ cmp_shared = {}
    /\ cmp_last = "load_input"
    /\ loads = MaxLoads - 1
    /\ edits = 0
    /\ CodecIdle /\ ArrayIdle /\ EnvIdle /\ ReaderIdle

NextBaseline == _cmp_set_original \/ _cmp_run_compare

SpecBaseline == InitBaseline /\ [][NextBaseline]_vars

---------------------------------------------------------------------------
(* A file loaded after the compare.  Source and input are loaded and       *)
(* compared and Select All is clicked; then one more file may be loaded,   *)
(* as source or as input, and Merge clicked.  The load handlers leave      *)
(* cmp_diffs and cmp_checks as they are.                                   *)

InitReload ==
    /\ cmp_source \in CmpModels
    /\ cmp_input \in CmpModels
    /\ cmp_original = NoneFile
    /\ LET res == CompareLists(cmp_source, cmp_input, cmp_original)
       IN  /\ ~res.err
           /\ cmp_diffs = res.diffs
    /\ cmp_checks = {i \in AllRows(cmp_diffs) : cmp_diffs[i + 1].type # "source_only"}
    /\ cmp_tree = AllRows(cmp_diffs)
    /\ cmp_merge_info = MergeInfo("selected", Cardinality(cmp_checks), Len(cmp_diffs))
    /\ cmp_shared = {}
    /\ cmp_last = "select_all"
    /\ loads = MaxLoads - 1
    /\ edits = 0
    /\ CodecIdle /\ ArrayIdle /\ EnvIdle /\ ReaderIdle

NextReload == _cmp_load_source \/ _cmp_load_input \/ _cmp_merge

SpecReload == InitReload /\ [][NextReload]_vars

---------------------------------------------------------------------------
(* Buffers handed to read_par, each written out whole from a description   *)
(* [magic, whole, tail, nl, ne, fs]: the first four bytes, then (if whole)  *)
(* the header and nl lists of ne entries with the fields fs, then the      *)
(* tail.  The type tags of fs reach beyond the eight known ones.           *)

DecodeMagics == {PAR_MAGIC, <<80, 65, 82, 1>>, <<ZLIB_CMF, ZLIB_FLG, 1, 0>>}

TagWireFields ==
    { [t |-> TYPE_INT32, b |-> <<42, 0, 0, 0>>],
      [t |-> TYPE_STRING, b |-> WireString(<<65>>)],
      [t |-> TYPE_ARRAY_STR, b |-> WireArray(TYPE_ARRAY_STR, ONE64, MaxArrayCount)],
      [t |-> TYPE_ARRAY_STR + 1, b |-> <<>>],
      [t |-> UNKNOWN_TYPE, b |-> <<1, 0, 0, 0>>],
      [t |-> 255, b |-> <<>>] }

DecodeDescs ==
    { [magic |-> m, whole |-> TRUE, tail |-> t, nl |-> nl, ne |-> ne, fs |-> fs] :
        m \in DecodeMagics, t \in {<<>>, <<7, 0>>}, nl \in 0..MaxLists,
        ne \in 1..MaxEntries, fs \in SeqsUpTo(TagWireFields, MaxFields) }
    \cup
    { [magic |-> m, whole |-> FALSE, tail |-> <<>>, nl |-> 0, ne |-> 1, fs |-> <<>>] :
        m \in DecodeMagics }

DescFile(d) ==
    IF ~d.whole THEN d.magic
    ELSE d.magic \o
         SliceFrom(WireFile(PAR_VERSION_TW1, 0,
                            Repeat(WireList(0, 0, Repeat(WireEntry(NameA, 0, 0, 0, d.fs), d.ne)),
                                   d.nl),
                            d.tail), 4)

InitDecode ==
    /\ desc \in DecodeDescs
    /\ data = DescFile(desc)
    /\ par = NoneFile
    /\ out = <<>>
    /\ cphase = "input"
    /\ rd = ParReader(<<>>)
    /\ rop = NoRead
    /\ frame = NoFrame
    /\ ArrayIdle /\ EnvIdle /\ CmpIdle

NextDecode == Decode \/ Encode

SpecDecode == InitDecode /\ [][NextDecode]_vars

---------------------------------------------------------------------------
(* One ParReader and the reads its caller makes on it, one after another.  *)
(* A read that raises leaves the reader object to its caller as it is,     *)
(* and the caller may read again.  The buffers begin with a 32-bit length  *)
(* at, around and far above the ceiling of read_delphi_string.             *)

StringLengths == {0, 1, 3, MAX_STRING_LENGTH - 1, MAX_STRING_LENGTH, MAX_STRING_LENGTH + 1,
                  2147483647}

CursorBodies == {<<>>, <<65>>, <<65, 100, 66>>, <<65, 100, 66, 0, 1>>}

CursorBuffers ==
    {PackLE(l, 4) \o b : l \in StringLengths, b \in CursorBodies}
    \cup {<<>>, <<1>>, <<1, 2, 3>>}

ReadSizes == {0, 1, 3, 8}

InitCursor ==
    /\ desc = <<>>
    /\ rd \in {ParReader(b) : b \in CursorBuffers}
    /\ rop = NoRead
    /\ frame = NoFrame
    /\ CodecIdle /\ ArrayIdle /\ EnvIdle /\ CmpIdle

\* the call op, asking for n bytes, returned or raised as res tells
CursorStep(op, n, res) ==
    /\ rd' = [res.r EXCEPT !.err = "ok"]
    /\ rop' = [op |-> op, n |-> n, pos |-> rd.pos, err |-> res.r.err, v |-> res.v]
    /\ UNCHANGED <<desc, frame, codecVars, arrayVars, envVars, cmpVars>>

call_read_bytes == \E n \in ReadSizes : CursorStep("read_bytes", n, read_bytes(rd, n))

call_read_u8 == CursorStep("read_u8", 1, read_u8(rd))

call_read_i8 == CursorStep("read_i8", 1, read_i8(rd))

call_read_u16 == CursorStep("read_u16", 2, read_u16(rd))

call_read_u32 == CursorStep("read_u32", 4, read_u32(rd))

call_read_i32 == CursorStep("read_i32", 4, read_i32(rd))

call_read_f32 == CursorStep("read_f32", 4, read_f32(rd))

call_read_u64 == CursorStep("read_u64", 8, read_u64(rd))

call_read_delphi_string == CursorStep("read_delphi_string", 4, read_delphi_string(rd))

NextCursor ==
    \/ call_read_bytes
    \/ call_read_u8
    \/ call_read_i8
    \/ call_read_u16
    \/ call_read_u32
    \/ call_read_i32
    \/ call_read_f32
    \/ call_read_u64
    \/ call_read_delphi_string

SpecCursor == InitCursor /\ [][NextCursor]_vars

---------------------------------------------------------------------------
(* Properties of the codec *)

\* C1: every buffer that read_par decodes into a Model is reproduced byte
\* for byte by write_par, the bytes after the last list included
C1_RoundTrip == cphase = "encoded" => out = data

\* the item the reader yields for the k-th element WireArray writes
ExpectedItem(t, k) ==
    IF t = TYPE_ARRAY_INT32 THEN (IF k % 2 = 1 THEN <<5>> ELSE <<-1>>)
    ELSE IF t = TYPE_ARRAY_FLOAT THEN (IF k % 2 = 1 THEN F32_ONE ELSE F32_TINY)
    ELSE IF t = TYPE_ARRAY_UINT32 THEN (IF k % 2 = 1 THEN <<12>> ELSE <<256>>)
    ELSE (IF k % 2 = 1 THEN <<65, 65533>> ELSE <<>>)

\* the bytes the writer emits for that item
ExpectedElemBytes(t, k) ==
    IF t = TYPE_ARRAY_STR
    THEN (IF k % 2 = 1 THEN <<2, 0, 0, 0, 65, 63>> ELSE <<0, 0, 0, 0>>)
    ELSE WireElem(t, k)

ArrayDecoded == aphase \in {"decoded", "encoded"} /\ ares.r.err = "ok"

\* C2: for each of the four array types, a field with presence marker 0
\* decodes to a zero-length sequence (and only the 8 marker bytes are read),
\* a zero-length sequence is encoded as exactly 8 zero bytes, a non-empty
\* array decodes to its declared count of elements in wire order, and is
\* encoded as presence 1, the count and the elements in the same order
C2_ArrayPresenceLaw ==
    /\ (ArrayDecoded /\ afield.marker = ZERO64) =>
           /\ ares.v.value.items = <<>>
           /\ ares.r.pos = 8
    /\ (ArrayDecoded /\ afield.marker # ZERO64 /\ afield.n >= 1) =>
           /\ IsList(ares.v.value)
           /\ Len(ares.v.value.items) = afield.n
           /\ \A k \in 1..afield.n : ares.v.value.items[k] = ExpectedItem(afield.t, k)
    /\ (aphase = "encoded" /\ ares.v.value.items = <<>>) => aout = ZERO64
    /\ (aphase = "encoded" /\ ares.v.value.items # <<>>) =>
           aout = ONE64 \o <<afield.n, 0, 0, 0>>
                  \o Concat([k \in 1..afield.n |-> ExpectedElemBytes(afield.t, k)])

C2_Witness ==
    /\ aphase = "encoded"
    /\ afield.marker = ONE64
    /\ afield.n = MaxArrayCount
    /\ afield.t = TYPE_ARRAY_STR
    /\ Len(ares.v.value.items) = MaxArrayCount
    /\ Len(aout) > 12

\* C3: an array field decoded from the present-but-empty form (presence 1,
\* count 0) is encoded again as presence 1 followed by count 0
C3_PresentEmptyKept ==
    (aphase = "encoded" /\ afield.marker = ONE64 /\ afield.n = 0)
        => aout = ONE64 \o <<0, 0, 0, 0>>

\* C4: decompress_par_file(compress_par_file(container, header)) is
\* (container, header, True) for every container and every header, the
\* empty header and the absent header included
C4_EnvelopeSymmetry ==
    ephase = "decompressed" =>
        env_result = EnvelopeResult(env_par_data, env_wrapper, TRUE)

C4_Witness ==
    /\ ephase = "decompressed"
    /\ env_wrapper = Some(<<>>)
    /\ Len(env_par_data) = Len(PAR_MAGIC) + MaxEnvLen
    /\ env_result.ok
    /\ env_result.wrapper = Some(<<>>)

---------------------------------------------------------------------------
(* Properties of the compare tab *)

Compared == cmp_last \in {"compare", "compare_raised"}

\* the same lists, entries, type tags and values on both sides
SameModel(a, b) == a.ok /\ b.ok /\ a.version = b.version /\ a.lists = b.lists

\* C5: a compare of a Model with itself (the same file loaded as source and
\* as input) produces zero diff records
C5_DiffReflexive == (Compared /\ SameModel(cmp_source, cmp_input)) => cmp_diffs = <<>>

\* C6: a merge applied again with the same selection leaves the source as
\* the first application left it, and adds no entry
C6_MergeIdempotent ==
    [][(cmp_last = "merge" /\ cmp_last' = "merge")
          => (cmp_source' = cmp_source /\ cmp_merge_info'.n2 = 0)]_vars

C6_Witness ==
    /\ cmp_last = "merge"
    /\ cmp_merge_info = MergeInfo("merged", 1, 0)
    /\ \E i \in cmp_checks : cmp_diffs[i + 1].type = "input_only"
    /\ \E i \in cmp_checks : cmp_diffs[i + 1].type = "changed"

SourceOnlyRows(diffs) == {i \in AllRows(diffs) : diffs[i + 1].type = "source_only"}

Smaller(a, b) == IF a < b THEN a ELSE b

NamePlaces(entries, name) == {k \in 1..Len(entries) : entries[k].name = name}

\* the two values differ; two floats differ when they are further apart
\* than the tolerance of the compare
ValuesDiffer(f1, f2) ==
    /\ f1.value # f2.value
    /\ ~(/\ f1.value.kind = "float"
         /\ f2.value.kind = "float"
         /\ FloatClose(f1.value.items[1], f2.value.items[1]))

\* the string form of a scalar value
Display(f) ==
    IF f.value.kind = "int" THEN IntToStr(f.value.items[1][1])
    ELSE IF f.value.kind = "str" THEN f.value.items[1]
    ELSE IF IsNaN(f.value.items[1]) \/ IsInf(f.value.items[1])
         THEN ReprFloat(f.value.items[1])
    ELSE IF FloatIsIntegral(f.value.items[1]) THEN FormatF1(f.value.items[1])
    ELSE FormatF4(f.value.items[1])

\* se and ie carry the same name, once in each list, hold scalar fields
\* only, and field i (1-based) is the one field that differs in value
ScalarChangeAt(src_list, inp_list, se, ie, i) ==
    /\ se.name = ie.name
    /\ Cardinality(NamePlaces(src_list.entries, se.name)) = 1
    /\ Cardinality(NamePlaces(inp_list.entries, ie.name)) = 1
    /\ Len(se.fields) = Len(ie.fields)
    /\ i \in 1..Len(se.fields)
    /\ \A j \in 1..Len(se.fields) : ~IsList(se.fields[j].value) /\ ~IsList(ie.fields[j].value)
    /\ {j \in 1..Len(se.fields) : ValuesDiffer(se.fields[j], ie.fields[j])} = {i}

RecordsOf(diffs, li, name) ==
    {r \in 1..Len(diffs) : diffs[r].list_idx = li /\ diffs[r].entry_name = name}

\* the record's coordinates name an entry of src and an entry of inp
CoordsValid(d, src, inp) ==
    /\ d.src_li >= 0 /\ d.src_li < Len(src.lists)
    /\ d.src_ei >= 0 /\ d.src_ei < Len(src.lists[d.src_li + 1].entries)
    /\ d.inp_li >= 0 /\ d.inp_li < Len(inp.lists)
    /\ d.inp_ei >= 0 /\ d.inp_ei < Len(inp.lists[d.inp_li + 1].entries)

\* C8: when one entry name is in the same list of source and input and
\* exactly one field i differs in value, the compare yields exactly one
\* record for the entry: a Changed record at field i whose display values
\* are the string forms of the two values; merging the record sets field i
\* of the source entry to the type tag and value of the input field
C8_ScalarChange ==
    /\ Compared =>
         \A li \in 1..Smaller(Len(cmp_source.lists), Len(cmp_input.lists)) :
           \A sk \in 1..Len(cmp_source.lists[li].entries) :
             \A ik \in 1..Len(cmp_input.lists[li].entries) :
               \A i \in 1..Len(cmp_source.lists[li].entries[sk].fields) :
                 ScalarChangeAt(cmp_source.lists[li], cmp_input.lists[li],
                                cmp_source.lists[li].entries[sk],
                                cmp_input.lists[li].entries[ik], i)
                 => /\ Cardinality(RecordsOf(cmp_diffs, li - 1,
                                             cmp_source.lists[li].entries[sk].name)) = 1
                    /\ \A r \in RecordsOf(cmp_diffs, li - 1,
                                          cmp_source.lists[li].entries[sk].name) :
                         /\ cmp_diffs[r].type = "changed"
                         /\ cmp_diffs[r].field_idx = i - 1
                         /\ cmp_diffs[r].source_val =
                                Display(cmp_source.lists[li].entries[sk].fields[i])
                         /\ cmp_diffs[r].input_val =
                                Display(cmp_input.lists[li].entries[ik].fields[i])
    /\ cmp_last = "merge" =>
         \A r \in cmp_checks :
           (/\ cmp_diffs[r + 1].type = "changed"
            /\ CoordsValid(cmp_diffs[r + 1], cmp_source, cmp_input)
            /\ cmp_diffs[r + 1].field_idx <
                   Len(cmp_input.lists[cmp_diffs[r + 1].inp_li + 1]
                           .entries[cmp_diffs[r + 1].inp_ei + 1].fields))
           => cmp_source.lists[cmp_diffs[r + 1].src_li + 1]
                  .entries[cmp_diffs[r + 1].src_ei + 1].fields[cmp_diffs[r + 1].field_idx + 1]
              = cmp_input.lists[cmp_diffs[r + 1].inp_li + 1]
                  .entries[cmp_diffs[r + 1].inp_ei + 1].fields[cmp_diffs[r + 1].field_idx + 1]

InputOnlyRecords(diffs, li, name) ==
    {r \in 1..Len(diffs) : /\ diffs[r].type = "input_only"
                           /\ diffs[r].list_idx = li
                           /\ diffs[r].entry_name = name}

\* C9: when the input list at index L holds an entry whose name is not in
\* the source list at index L, the compare yields exactly one InputOnly
\* record for that name; merging it appends a copy of the entry at the end
\* of source list L, and a compare run afterwards has no InputOnly record
\* for that name
C9_NewEntry ==
    /\ Compared =>
         \A li \in 1..Smaller(Len(cmp_source.lists), Len(cmp_input.lists)) :
           \A ik \in 1..Len(cmp_input.lists[li].entries) :
             (cmp_input.lists[li].entries[ik].name \notin EntryNames(cmp_source.lists[li]))
             => Cardinality(InputOnlyRecords(cmp_diffs, li - 1,
                                             cmp_input.lists[li].entries[ik].name)) = 1
    /\ (cmp_last = "merge" /\ cmp_merge_info.n2 = 1) =>
         \A r \in cmp_checks :
           (/\ cmp_checks = {r}
            /\ cmp_diffs[r + 1].type = "input_only"
            /\ cmp_diffs[r + 1].inp_li < Len(cmp_input.lists)
            /\ cmp_diffs[r + 1].inp_ei <
                   Len(cmp_input.lists[cmp_diffs[r + 1].inp_li + 1].entries))
           => /\ cmp_source.lists[cmp_diffs[r + 1].inp_li + 1]
                     .entries[Len(cmp_source.lists[cmp_diffs[r + 1].inp_li + 1].entries)]
                 = cmp_input.lists[cmp_diffs[r + 1].inp_li + 1]
                       .entries[cmp_diffs[r + 1].inp_ei + 1]
              /\ InputOnlyRecords(
                     CompareLists(cmp_source, cmp_input, cmp_original).diffs,
                     cmp_diffs[r + 1].inp_li, cmp_diffs[r + 1].entry_name) = {}

InputChanged == cmp_last \in {"input_set_item", "input_replace_value"}

\* C10: a change made to the input Model after a merge, to a field value
\* or in place to an item of a list value, leaves every type tag and value
\* of the source as it was
C10_NoAliasing == [][InputChanged' => cmp_source' = cmp_source]_vars

\* a list the merge copied into the source, and the input's list changed in
\* place afterwards: the two now differ in their first item
C10_Witness ==
    /\ cmp_last = "input_set_item"
    /\ \E r \in cmp_checks :
         /\ cmp_diffs[r + 1].type = "changed"
         /\ CoordsValid(cmp_diffs[r + 1], cmp_source, cmp_input)
         /\ LET d  == cmp_diffs[r + 1]
                sf == cmp_source.lists[d.src_li + 1].entries[d.src_ei + 1].fields
                if == cmp_input.lists[d.inp_li + 1].entries[d.inp_ei + 1].fields
            IN  /\ d.field_idx < Len(sf)
                /\ d.field_idx < Len(if)
                /\ IsList(if[d.field_idx + 1].value)
                /\ sf[d.field_idx + 1].dtype = if[d.field_idx + 1].dtype
                /\ Len(sf[d.field_idx + 1].value.items) = Len(if[d.field_idx + 1].value.items)
                /\ if[d.field_idx + 1].value.items[1] = EditItem(if[d.field_idx + 1].value.kind)
                /\ sf[d.field_idx + 1].value.items[1] # EditItem(if[d.field_idx + 1].value.kind)

---------------------------------------------------------------------------
(* Properties of the merge *)

MergeEnded == cmp_last \in {"merge", "merge_raised"}

\* the fields the selected Changed records name in the source, 0-based
ChangedTargets(diffs, checks) ==
    {<<diffs[i + 1].src_li, diffs[i + 1].src_ei, diffs[i + 1].field_idx>> :
         i \in {j \in Selected(diffs, checks) : diffs[j + 1].type = "changed"}}

\* entry b is entry a but for the fields named in targets: same name and
\* tags, no field of a gone, every other field of a untouched
EntryKept(a, b, li, ei, targets) ==
    /\ b.name = a.name
    /\ b.unknown_byte = a.unknown_byte
    /\ b.unknown_u16a = a.unknown_u16a
    /\ b.unknown_u16b = a.unknown_u16b
    /\ Len(b.fields) >= Len(a.fields)
    /\ \A fi \in 1..Len(a.fields) :
         <<li - 1, ei - 1, fi - 1>> \notin targets => b.fields[fi] = a.fields[fi]

ListKept(a, b, li, targets) ==
    /\ b.unknown1 = a.unknown1
    /\ b.unknown2 = a.unknown2
    /\ Len(b.entries) >= Len(a.entries)
    /\ \A ei \in 1..Len(a.entries) : EntryKept(a.entries[ei], b.entries[ei], li, ei, targets)

ModelKept(a, b, targets) ==
    /\ b.version = a.version
    /\ b.trailing_data = a.trailing_data
    /\ b.wrapper_header = a.wrapper_header
    /\ b.was_compressed = a.was_compressed
    /\ Len(b.lists) >= Len(a.lists)
    /\ \A li \in 1..Len(a.lists) : ListKept(a.lists[li], b.lists[li], li, targets)

\* C11: a merge leaves every source list, entry and field that existed
\* before in its place and unchanged, except the target fields of the
\* selected Changed records; it removes and reorders nothing, keeps the
\* source's version, trailing bytes, envelope header and wrapped flag, and
\* does not modify the input Model
C11_MergeFrame ==
    [][MergeEnded' =>
         /\ cmp_input' = cmp_input
         /\ ModelKept(cmp_source, cmp_source', ChangedTargets(cmp_diffs, cmp_checks))]_vars

\* a merge has applied one Changed record and left another Changed record
\* of the same entry, which was not selected, unapplied
C11_Witness ==
    /\ cmp_last = "merge"
    /\ cmp_merge_info = MergeInfo("merged", 1, 0)
    /\ \E r \in cmp_checks : \E u \in AllRows(cmp_diffs) \ cmp_checks :
         /\ cmp_diffs[r + 1].type = "changed"
         /\ cmp_diffs[u + 1].type = "changed"
         /\ cmp_diffs[u + 1].src_ei = cmp_diffs[r + 1].src_ei
         /\ cmp_diffs[u + 1].src_li = cmp_diffs[r + 1].src_li
         /\ cmp_diffs[u + 1].field_idx <
                Len(cmp_source.lists[cmp_diffs[u + 1].src_li + 1]
                        .entries[cmp_diffs[u + 1].src_ei + 1].fields)
         /\ cmp_diffs[u + 1].field_idx <
                Len(cmp_input.lists[cmp_diffs[u + 1].inp_li + 1]
                        .entries[cmp_diffs[u + 1].inp_ei + 1].fields)
         /\ cmp_source.lists[cmp_diffs[u + 1].src_li + 1]
                .entries[cmp_diffs[u + 1].src_ei + 1].fields[cmp_diffs[u + 1].field_idx + 1]
            # cmp_input.lists[cmp_diffs[u + 1].inp_li + 1]
                .entries[cmp_diffs[u + 1].inp_ei + 1].fields[cmp_diffs[u + 1].field_idx + 1]

---------------------------------------------------------------------------
(* Properties of the compare *)

\* the records without their baseline display value
StripBaseline(diffs) == [i \in 1..Len(diffs) |-> [diffs[i] EXCEPT !.original_val = <<>>]]

\* C12: for fixed source and input Models the compare yields the same
\* sequence of records, in type, list index, entry name, field index,
\* label, source value, input value and coordinates, with every baseline
\* and with none; only the baseline display value can differ
C12_BaselineNeutral ==
    Compared =>
        StripBaseline(cmp_diffs) =
            StripBaseline(CompareLists(cmp_source, cmp_input, NoneFile).diffs)

\* the entry of Model p at 0-based (li, ei) exists and is called name
EntryNamed(p, li, ei, name) ==
    /\ li >= 0 /\ li < Len(p.lists)
    /\ ei >= 0 /\ ei < Len(p.lists[li + 1].entries)
    /\ p.lists[li + 1].entries[ei + 1].name = name

\* C13: whenever the merge runs, the coordinates of every selected record
\* lead to the entry the record names: the source entry at (src_li, src_ei)
\* for a Changed record, the input entry at (inp_li, inp_ei) for a Changed
\* and for an InputOnly record
C13_CoordinatesFindEntry ==
    [][MergeEnded' =>
         \A r \in Selected(cmp_diffs, cmp_checks) :
             /\ cmp_diffs[r + 1].type = "changed" =>
                  /\ EntryNamed(cmp_source, cmp_diffs[r + 1].src_li, cmp_diffs[r + 1].src_ei,
                                cmp_diffs[r + 1].entry_name)
                  /\ EntryNamed(cmp_input, cmp_diffs[r + 1].inp_li, cmp_diffs[r + 1].inp_ei,
                                cmp_diffs[r + 1].entry_name)
             /\ cmp_diffs[r + 1].type = "input_only" =>
                  EntryNamed(cmp_input, cmp_diffs[r + 1].inp_li, cmp_diffs[r + 1].inp_ei,
                             cmp_diffs[r + 1].entry_name)]_vars

---------------------------------------------------------------------------
(* Properties of the envelope decode *)

\* a file that starts with the compressed-stream signature has been decoded
Unwrapped == ephase = "decompressed" /\ env_file # <<>> /\ env_file[1] = ZLIB_CMF

HasMagic(b) == Slice(b, 0, 4) = PAR_MAGIC

\* the two-stream part of the claim: a remainder is decompressed on its own
\* as stream 2; with the magic at its start the result is (stream 2, stream
\* 1 as header, wrapped), without it decoding fails
TwoStreamRule(dec1, dec2) ==
    IF ~dec2.err /\ HasMagic(dec2.data)
    THEN env_result = EnvelopeResult(dec2.data, Some(dec1.data), TRUE)
    ELSE ~env_result.ok

\* C14 as stated: a single stream is returned as the container whatever
\* it holds
C14_EnvelopeDecode ==
    Unwrapped =>
        (~zlib_decompress(env_file).err =>
            IF zlib_decompress(env_file).unused_data = <<>>
            THEN env_result = EnvelopeResult(zlib_decompress(env_file).data, None, TRUE)
            ELSE TwoStreamRule(zlib_decompress(env_file),
                               zlib_decompress(zlib_decompress(env_file).unused_data)))

\* C14, amended: decoding a buffer that starts with the compressed-stream
\* signature gives, when stream 1 leaves no unconsumed input, (decompressed
\* bytes, no header, wrapped) if those bytes begin with the container magic
\* and fails if they do not; when it leaves a remainder, the remainder is
\* decompressed as stream 2 and the result is (stream 2, stream 1 as header,
\* wrapped) if stream 2 begins with the magic, a failure if it does not
C14_EnvelopeDecodeChecked ==
    Unwrapped =>
        (~zlib_decompress(env_file).err =>
            IF zlib_decompress(env_file).unused_data = <<>>
            THEN IF HasMagic(zlib_decompress(env_file).data)
                 THEN env_result = EnvelopeResult(zlib_decompress(env_file).data, None, TRUE)
                 ELSE ~env_result.ok
            ELSE TwoStreamRule(zlib_decompress(env_file),
                               zlib_decompress(zlib_decompress(env_file).unused_data)))

\* two streams were decoded: a header of two bytes and a container, and a
\* byte that follows the second stream was left aside
C14_Witness ==
    /\ Unwrapped
    /\ env_result = EnvelopeResult(PAR_MAGIC \o <<1>>, Some(<<1, 2>>), TRUE)
    /\ env_file[Len(env_file)] = 9

---------------------------------------------------------------------------
(* Properties of the decode *)

KnownTypes == TYPE_INT32..TYPE_ARRAY_STR

\* the buffer is a whole container with at least one entry whose type
\* vector holds a type tag outside the known ones
HasUnknownTag(d) ==
    /\ d.whole
    /\ d.magic = PAR_MAGIC
    /\ d.nl >= 1
    /\ \E i \in 1..Len(d.fs) : d.fs[i].t \notin KnownTypes

\* C15: decoding a container in which an entry's type vector holds a type
\* tag outside 0..7 fails with the unknown-type error and returns no Model:
\* the field is neither skipped nor is anything decoded past it
C15_UnknownTypeFails ==
    (cphase = "decoded" /\ HasUnknownTag(desc)) => par = ParError("bad_type")

\* the tag 8 in second place, after an int32 field, in a container with
\* bytes after its lists
C15_Witness ==
    /\ cphase = "decoded"
    /\ HasUnknownTag(desc)
    /\ Len(desc.fs) = 2
    /\ desc.fs[1].t = TYPE_INT32
    /\ desc.fs[2].t = TYPE_ARRAY_STR + 1
    /\ desc.tail # <<>>
    /\ ~par.ok

\* C18: decoding a buffer whose first four bytes are not the magic fails
\* with the bad-magic error and returns no Model; nothing after the four
\* bytes is read, so the error is the same when nothing follows them
C18_BadMagicFails ==
    (cphase = "decoded" /\ Len(data) >= 4 /\ Slice(data, 0, 4) # PAR_MAGIC)
        => par = ParError("bad_magic")

\* a buffer of four bytes that differ from the magic in the last one
C18_Witness ==
    /\ cphase = "decoded"
    /\ data = <<80, 65, 82, 1>>
    /\ par = ParError("bad_magic")

---------------------------------------------------------------------------
(* Properties of the reader *)

\* the last call was one read of rop.n bytes at rop.pos
PlainRead == rop.op \notin {"none", "read_delphi_string"}

\* C16: a read of n bytes at position p succeeds only when p + n is at
\* most the buffer size, and then moves the position by exactly n;
\* otherwise it fails with the out-of-bounds error and leaves the position
\* where it was; the position stays within 0..size in every state
C16_CursorBounds ==
    /\ rd.size = Len(rd.data)
    /\ 0 <= rd.pos
    /\ rd.pos <= rd.size
    /\ PlainRead =>
         IF rop.pos + rop.n <= rd.size
         THEN rop.err = "ok" /\ rd.pos = rop.pos + rop.n
         ELSE rop.err = "past_end" /\ rd.pos = rop.pos

\* a read of eight bytes failed in the middle of the buffer and left the
\* position there
C16_Witness ==
    /\ rop.op = "read_u64"
    /\ rop.err = "past_end"
    /\ rop.pos > 0
    /\ rop.pos < rd.size
    /\ rd.pos = rop.pos

\* read_delphi_string was called where four bytes of length could be read
StringRead == rop.op = "read_delphi_string" /\ rop.pos + 4 <= rd.size

DeclaredLength == UnpackLE(rd.data, rop.pos, 4)

\* C17: a string whose declared length exceeds 1,000,000 fails with the
\* corrupt-length error, whatever is left in the buffer, and no byte after
\* the length is read; a declared length of at most 1,000,000 never fails
\* with that error
C17_StringCeiling ==
    StringRead =>
        IF DeclaredLength > 1000000
        THEN rop.err = "str_len" /\ rd.pos = rop.pos + 4
        ELSE rop.err # "str_len"

\* the length 1,000,000 itself, with three bytes left in the buffer: the
\* ceiling lets it pass and the read of the bytes fails out of bounds
C17_Witness ==
    /\ StringRead
    /\ DeclaredLength = 1000000
    /\ rd.size - rop.pos = 7
    /\ rop.err = "past_end"

---------------------------------------------------------------------------
(* Whole-entry records and Changed records of a compare                    *)

UniqueNames(pl) == \A k \in 1..Len(pl.entries) : NamePlaces(pl.entries, pl.entries[k].name) = {k}

\* entry ei of list li is on this side only: the other side has no list li,
\* or has one without the name
OneSided(this, other, li, ei) ==
    \/ li > Len(other.lists)
    \/ /\ UniqueNames(this.lists[li])
       /\ this.lists[li].entries[ei].name \notin EntryNames(other.lists[li])

\* the rows of the records that carry the source coordinates (li, ei)
SourceRows(diffs, li, ei) == {r \in 1..Len(diffs) : diffs[r].src_li = li /\ diffs[r].src_ei = ei}

\* the rows of the records of the input entry (li, ei) that no source entry
\* shares
InputRows(diffs, li, ei) ==
    {r \in 1..Len(diffs) : /\ diffs[r].inp_li = li /\ diffs[r].inp_ei = ei
                           /\ diffs[r].src_li = -1}

WholeEntryShape(d, type, li, name) ==
    /\ d.type = type
    /\ d.list_idx = li
    /\ d.entry_name = name
    /\ d.field_idx = -1
    /\ IF type = "source_only" THEN d.inp_li = -1 /\ d.inp_ei = -1
       ELSE d.src_li = -1 /\ d.src_ei = -1

\* C19: after a compare, every entry on one side only (its list index is
\* in one Model only, or its name is not in the other Model's list of the
\* same index) has exactly one record; the record has field index -1, is
\* SourceOnly for a source entry and InputOnly for an input entry, carries
\* the coordinates of the entry and -1 for the coordinates of the absent side
C19_WholeEntryRecords ==
    Compared =>
      /\ \A li \in 1..Len(cmp_source.lists) :
           \A ei \in 1..Len(cmp_source.lists[li].entries) :
             OneSided(cmp_source, cmp_input, li, ei)
             => /\ Cardinality(SourceRows(cmp_diffs, li - 1, ei - 1)) = 1
                /\ \A r \in SourceRows(cmp_diffs, li - 1, ei - 1) :
                     WholeEntryShape(cmp_diffs[r], "source_only", li - 1,
                                     cmp_source.lists[li].entries[ei].name)
      /\ \A li \in 1..Len(cmp_input.lists) :
           \A ei \in 1..Len(cmp_input.lists[li].entries) :
             OneSided(cmp_input, cmp_source, li, ei)
             => /\ Cardinality(InputRows(cmp_diffs, li - 1, ei - 1)) = 1
                /\ \A r \in InputRows(cmp_diffs, li - 1, ei - 1) :
                     WholeEntryShape(cmp_diffs[r], "input_only", li - 1,
                                     cmp_input.lists[li].entries[ei].name)

\* the rows of the Changed records of field fi (0-based) of a name of list li
ChangedRows(diffs, li, name, fi) ==
    {r \in 1..Len(diffs) : /\ diffs[r].type = "changed"
                           /\ diffs[r].list_idx = li
                           /\ diffs[r].entry_name = name
                           /\ diffs[r].field_idx = fi}

\* field i (1-based) is missing on one side, or the type tags differ, or
\* the values differ
FieldDiffers(se, ie, i) ==
    \/ i > Len(se.fields)
    \/ i > Len(ie.fields)
    \/ se.fields[i].dtype # ie.fields[i].dtype
    \/ ValuesDiffer(se.fields[i], ie.fields[i])

\* C20: after a compare, for a name that is in the source list and in the
\* input list of one index, there is a Changed record at field index i,
\* for i below the larger of the two field counts, exactly when the field
\* is missing on one side, or the type tags differ, or the values differ;
\* a field with the same type tag and an equal value on both sides has none
C20_ChangedRecords ==
    Compared =>
      \A li \in 1..Smaller(Len(cmp_source.lists), Len(cmp_input.lists)) :
        \A sk \in 1..Len(cmp_source.lists[li].entries) :
          \A ik \in 1..Len(cmp_input.lists[li].entries) :
            (/\ cmp_source.lists[li].entries[sk].name = cmp_input.lists[li].entries[ik].name
             /\ UniqueNames(cmp_source.lists[li])
             /\ UniqueNames(cmp_input.lists[li]))
            => \A i \in 1..MaxFieldsOf(cmp_source.lists[li].entries[sk],
                                       cmp_input.lists[li].entries[ik]) :
                 Cardinality(ChangedRows(cmp_diffs, li - 1,
                                         cmp_source.lists[li].entries[sk].name, i - 1))
                 = IF FieldDiffers(cmp_source.lists[li].entries[sk],
                                   cmp_input.lists[li].entries[ik], i)
                   THEN 1 ELSE 0

---------------------------------------------------------------------------
(* The order of the records of a compare *)

\* the 0-based entry index a whole-entry record carries for the side it is on
PresentEntry(d) == IF d.src_ei >= 0 THEN d.src_ei ELSE d.inp_ei

\* record d comes before record e in the order of the compare of src and inp
RecordBefore(d, e, src, inp) ==
    \/ d.list_idx < e.list_idx
    \/ /\ d.list_idx = e.list_idx
       /\ IF d.list_idx < Len(src.lists) /\ d.list_idx < Len(inp.lists)
          THEN \/ StrLess(d.entry_name, e.entry_name)
               \/ d.entry_name = e.entry_name /\ d.field_idx < e.field_idx
          ELSE PresentEntry(d) < PresentEntry(e)

InOrder(diffs, src, inp) ==
    \A r \in 1..Len(diffs) : \A q \in 1..Len(diffs) :
        r < q => RecordBefore(diffs[r], diffs[q], src, inp)

\* C21: the records of a compare are in ascending list index; in a list
\* index both sides have, in ascending sorted order of the entry name and,
\* for one entry, in ascending field index; in a list index one side has,
\* in the entry order of that list
C21_DiffOrder == Compared => InOrder(cmp_diffs, cmp_source, cmp_input)

\* C21: a compare run again on the same source, input and baseline gives
\* the identical record sequence
C21_SameSequence == [][(Compared /\ Compared') => cmp_diffs' = cmp_diffs]_vars

C21_Deterministic == C21_SameSequence /\ []C21_DiffOrder

\* a compare whose records put the name sorted first before a name that
\* stands earlier in the source list, and two fields of one entry in order
C21_Witness ==
    /\ cmp_last = "compare"
    /\ \E r \in 1..Len(cmp_diffs) : \E q \in 1..Len(cmp_diffs) :
         /\ r < q
         /\ cmp_diffs[r].entry_name = cmp_diffs[q].entry_name
         /\ cmp_diffs[r].field_idx < cmp_diffs[q].field_idx
    /\ \E r \in 1..Len(cmp_diffs) : \E q \in 1..Len(cmp_diffs) :
         /\ r < q
         /\ cmp_diffs[r].list_idx = cmp_diffs[q].list_idx
         /\ StrLess(cmp_diffs[r].entry_name, cmp_diffs[q].entry_name)
         /\ cmp_diffs[r].src_ei > cmp_diffs[q].src_ei
         /\ cmp_diffs[q].src_ei >= 0

---------------------------------------------------------------------------
(* The merge of a whole selection *)

MergeableRows(diffs) == {i \in AllRows(diffs) : diffs[i + 1].type # "source_only"}

\* cmp_diffs is the diff of the loaded source and input, and every Changed
\* and every InputOnly record of it is selected
AllSelected ==
    /\ cmp_source.ok
    /\ cmp_input.ok
    /\ cmp_diffs = CompareLists(cmp_source, cmp_input, cmp_original).diffs
    /\ cmp_checks = MergeableRows(cmp_diffs)

\* the entry names of every list of the Model are pairwise distinct
AllUnique(m) == \A li \in 1..Len(m.lists) : UniqueNames(m.lists[li])

MergeEnds == cmp_last' \in {"merge", "merge_raised"}

\* a compare of src and inp ends with SourceOnly records only
OnlySourceOnly(src, inp, orig) ==
    /\ ~CompareLists(src, inp, orig).err
    /\ MergeableRows(CompareLists(src, inp, orig).diffs) = {}

\* C22: after a diff, a selection of every Changed and every InputOnly
\* record and one merge, a new diff of the merged source against the same
\* input has no Changed and no InputOnly record
C22_MergeConverges ==
    [][(AllSelected /\ MergeEnds /\ AllUnique(cmp_source) /\ AllUnique(cmp_input))
          => OnlySourceOnly(cmp_source', cmp_input, cmp_original)]_vars

\* the fields of the source entry and of the input entry a record points at
SourceFieldsOf(d, src) == src.lists[d.src_li + 1].entries[d.src_ei + 1].fields
InputFieldsOf(d, inp) == inp.lists[d.inp_li + 1].entries[d.inp_ei + 1].fields

\* d is a Changed record whose field index is at or beyond the field count
\* of its source entry, and whose input entry has a field at that index
PadsOnMerge(d, src, inp) ==
    /\ d.type = "changed"
    /\ CoordsValid(d, src, inp)
    /\ d.field_idx >= Len(SourceFieldsOf(d, src))
    /\ d.field_idx < Len(InputFieldsOf(d, inp))

\* new is old, then int32 fields of value 0 up to index fi - 1, then the
\* input field at index fi (0-based)
PaddedTo(new, old, fi, inp_field) ==
    /\ Len(new) = fi + 1
    /\ \A k \in 1..Len(old) : new[k] = old[k]
    /\ \A k \in (Len(old) + 1)..fi : new[k] = ParField(TYPE_INT32, PyInt(0))
    /\ new[fi + 1] = inp_field

\* C23: the merge of one selected Changed record whose field index fi is at
\* or beyond the field count n of the source entry, the input entry having
\* a field at fi, appends int32 fields of value 0 at n..fi-1 and sets field
\* fi from the input: the entry ends with fi+1 fields, those below n unchanged
C23_PaddingOnMerge ==
    [][\A r \in cmp_checks :
         (/\ cmp_checks = {r}
          /\ MergeEnds
          /\ r < Len(cmp_diffs)
          /\ PadsOnMerge(cmp_diffs[r + 1], cmp_source, cmp_input))
         => PaddedTo(SourceFieldsOf(cmp_diffs[r + 1], cmp_source'),
                     SourceFieldsOf(cmp_diffs[r + 1], cmp_source),
                     cmp_diffs[r + 1].field_idx,
                     InputFieldsOf(cmp_diffs[r + 1], cmp_input)[cmp_diffs[r + 1].field_idx + 1])]_vars

\* a merged record of field index 2 that the source entry lacked, and below
\* it a field of int32 0 where the input entry holds a string
C23_Witness ==
    /\ cmp_last = "merge"
    /\ \E r \in cmp_checks :
         /\ cmp_checks = {r}
         /\ cmp_diffs[r + 1].type = "changed"
         /\ cmp_diffs[r + 1].field_idx = 2
         /\ cmp_diffs[r + 1].source_val = EM_DASH
         /\ CoordsValid(cmp_diffs[r + 1], cmp_source, cmp_input)
         /\ Len(SourceFieldsOf(cmp_diffs[r + 1], cmp_source)) = 3
         /\ SourceFieldsOf(cmp_diffs[r + 1], cmp_source)[2] = ParField(TYPE_INT32, PyInt(0))
         /\ InputFieldsOf(cmp_diffs[r + 1], cmp_input)[2].dtype = TYPE_STRING
         /\ SourceFieldsOf(cmp_diffs[r + 1], cmp_source)[3]
                = InputFieldsOf(cmp_diffs[r + 1], cmp_input)[3]

\* d is an InputOnly record of an entry of inp whose list index is not yet
\* an index of src.lists
ExtendsOnMerge(d, src, inp) ==
    /\ d.type = "input_only"
    /\ d.inp_li >= Len(src.lists)
    /\ d.inp_li < Len(inp.lists)
    /\ d.inp_ei >= 0
    /\ d.inp_ei < Len(inp.lists[d.inp_li + 1].entries)

\* new is old, then empty lists with both tags 0 up to index li - 1, then a
\* list with both tags 0 that holds the entry alone
ExtendedTo(new, old, li, entry) ==
    /\ Len(new) = li + 1
    /\ \A k \in 1..Len(old) : new[k] = old[k]
    /\ \A k \in (Len(old) + 1)..li : new[k] = ParList(0, 0, <<>>)
    /\ new[li + 1] = ParList(0, 0, <<entry>>)

\* C24: the merge of one selected InputOnly record whose list index L is
\* not yet an index of source.lists appends empty lists (no entries, both
\* tags 0) until index L exists and appends the entry to list L; the lists
\* the source had keep their index, tags and entries
C24_ListExtension ==
    [][\A r \in cmp_checks :
         (/\ cmp_checks = {r}
          /\ MergeEnds
          /\ r < Len(cmp_diffs)
          /\ ExtendsOnMerge(cmp_diffs[r + 1], cmp_source, cmp_input))
         => /\ cmp_last' = "merge"
            /\ ExtendedTo(cmp_source'.lists, cmp_source.lists, cmp_diffs[r + 1].inp_li,
                          cmp_input.lists[cmp_diffs[r + 1].inp_li + 1]
                              .entries[cmp_diffs[r + 1].inp_ei + 1])]_vars

\* a source that had no list: after the merge of a record of list 1 it has
\* an empty list 0 with tags 0, where the input's list 0 has an entry and
\* other tags, and the entry in list 1
C24_Witness ==
    /\ cmp_last = "merge"
    /\ \E r \in cmp_checks :
         /\ cmp_checks = {r}
         /\ cmp_diffs[r + 1].type = "input_only"
         /\ cmp_diffs[r + 1].inp_li = 1
         /\ cmp_diffs[r + 1].source_val = EM_DASH
    /\ Len(cmp_source.lists) = 2
    /\ cmp_source.lists[1] = ParList(0, 0, <<>>)
    /\ Len(cmp_input.lists) = 2
    /\ cmp_input.lists[1].unknown1 # 0
    /\ cmp_input.lists[1].entries # <<>>
    /\ cmp_source.lists[2].entries = cmp_input.lists[2].entries
    /\ Len(cmp_source.lists[2].entries) = 1

\* d is an InputOnly record of an entry of inp whose name an entry of the
\* source list of the same index carries already
NameTaken(d, src, inp) ==
    /\ d.type = "input_only"
    /\ d.inp_li >= 0
    /\ d.inp_li < Len(inp.lists)
    /\ d.inp_li < Len(src.lists)
    /\ d.inp_ei >= 0
    /\ d.inp_ei < Len(inp.lists[d.inp_li + 1].entries)
    /\ inp.lists[d.inp_li + 1].entries[d.inp_ei + 1].name \in EntryNames(src.lists[d.inp_li + 1])

\* the merge of one selected InputOnly record whose name is taken appends
\* nothing and counts no entry as added
TakenNameSkipped ==
    \A r \in cmp_checks :
      (/\ cmp_checks = {r}
       /\ MergeEnds
       /\ r < Len(cmp_diffs)
       /\ NameTaken(cmp_diffs[r + 1], cmp_source, cmp_input))
      => /\ cmp_source' = cmp_source
         /\ cmp_merge_info' = MergeInfo("merged", 0, 0)

\* C25: an InputOnly record whose entry name exists in the target source
\* list already is skipped, nothing appended and nothing counted as added;
\* a merge of a source whose lists have pairwise distinct entry names leaves
\* every source list with pairwise distinct entry names
C25_NoDuplicateName ==
    [][/\ TakenNameSkipped
       /\ (MergeEnds /\ AllUnique(cmp_source)) => AllUnique(cmp_source')]_vars

\* a merge of one selected InputOnly record that added nothing: the name is
\* in the source list once
C25_Witness ==
    /\ cmp_last = "merge"
    /\ cmp_merge_info = MergeInfo("merged", 0, 0)
    /\ AllUnique(cmp_source)
    /\ \E r \in cmp_checks :
         /\ cmp_checks = {r}
         /\ NameTaken(cmp_diffs[r + 1], cmp_source, cmp_input)
         /\ Len(cmp_source.lists[cmp_diffs[r + 1].inp_li + 1].entries) >= 2

---------------------------------------------------------------------------
(* The selection of the compare tab *)

\* C26: in every state the compare tab reaches by compare, click, Select
\* All, Deselect All and merge, every checked row is a row of cmp_diffs
\* that is not a SourceOnly record, and after a compare no row is checked
C26_SelectionInvariant ==
    /\ \A i \in cmp_checks : i < Len(cmp_diffs) /\ cmp_diffs[i + 1].type # "source_only"
    /\ Compared => cmp_checks = {}

\* after Select All on a diff with a SourceOnly record and another record:
\* the other record is checked
C26_Witness ==
    /\ cmp_last = "select_all"
    /\ SourceOnlyRows(cmp_diffs) # {}
    /\ cmp_checks # {}
    /\ cmp_checks = AllRows(cmp_diffs) \ SourceOnlyRows(cmp_diffs)

\* C27: whatever source and input are loaded, before or after the compare,
\* every index the merge uses is inside the Model it indexes: no merge ends
\* with an IndexError, every merge runs over all selected records
C27_MergeInRange == cmp_last # "merge_raised"

---------------------------------------------------------------------------
(* Load and save: the editor's _load_par and _do_save on self.par, and the *)
(* compare tab's _cmp_save on cmp_source.  data holds the bytes read from  *)
(* the file loaded last, env_file the bytes written last, ephase the       *)
(* handler that wrote them.                                                *)

SavePlain == CmpPlain(<<WireList(7, 8, <<EA(<<WI10, WARR>>)>>)>>)

\* files on disk: raw containers, single-stream and dual-stream envelopes,
\* and files no load accepts
SaveFiles ==
    { SavePlain,
      CmpPlain(<<>>),
      WireFile(PAR_VERSION_TW1, 1, <<WireList(0, 0, <<EA(<<WI12>>)>>)>>, <<7, 0>>),
      compress_par_file(SavePlain, None),
      compress_par_file(SavePlain, Some(<<1, 2>>)),
      compress_par_file(SavePlain, Some(<<>>)),
      compress_par_file(SavePlain, Some(PAR_MAGIC \o <<1>>)),
      compress_par_file(SavePlain, Some(<<1, 2>>)) \o <<9>>,
      compress_par_file(<<1, 2, 3, 4>>, None),
      <<ZLIB_CMF>>,
      <<1, 2, 3, 4>> }

\* the try block of _load_par: an exception leaves self.par as it was
LoadedInto(raw_data, loaded) ==
    IF loaded = NoneFile
    THEN UNCHANGED <<data, par, cphase>>
    ELSE /\ data' = raw_data
         /\ par' = loaded
         /\ cphase' = "loaded"

_load_par ==
    /\ \E raw_data \in SaveFiles : LoadedInto(raw_data, _cmp_load_par_file(raw_data))
    /\ UNCHANGED <<out, arrayVars, envVars, cmpVars, readerVars>>

\* a save that writes the container as it is, wrapped or not
SaveBytes_raw(p) == write_par(p)

\* the bytes a save writes for the Model p
SaveBytes(p) ==
    IF p.was_compressed THEN compress_par_file(write_par(p), p.wrapper_header)
    ELSE write_par(p)

_do_save ==
    /\ cphase \in {"loaded", "saved"}
    /\ par.ok
    /\ env_file' = SaveBytes(par)
    /\ ephase' = "do_save"
    /\ cphase' = "saved"
    /\ UNCHANGED <<data, par, out, env_par_data, env_wrapper, env_result>>
    /\ UNCHANGED <<arrayVars, cmpVars, readerVars>>

RECURSIVE TotalEntries(_, _)
TotalEntries(lists, i) ==
    IF i > Len(lists) THEN 0 ELSE Len(lists[i].entries) + TotalEntries(lists, i + 1)

_cmp_save ==
    /\ cmp_source.ok
    /\ env_file' = SaveBytes(cmp_source)
    /\ ephase' = "cmp_save"
    /\ cmp_merge_info' = MergeInfo("saved", Len(cmp_source.lists),
                                   TotalEntries(cmp_source.lists, 1))
    /\ cmp_last' = "save"
    /\ UNCHANGED <<cmp_source, cmp_input, cmp_original, cmp_diffs, cmp_checks, cmp_tree,
                   cmp_shared, loads, edits>>
    /\ UNCHANGED <<codecVars, arrayVars, env_par_data, env_wrapper, env_result, readerVars>>

SaveModels == {_cmp_load_par_file(f) : f \in SaveFiles} \ {NoneFile}

\* the editor has no file yet; the compare tab has loaded a source and an
\* input, compared them and selected every row Select All selects
InitSave ==
    /\ cmp_source \in SaveModels
    /\ cmp_input \in SaveModels
    /\ cmp_original = NoneFile
    /\ ~CompareLists(cmp_source, cmp_input, cmp_original).err
    /\ cmp_diffs = CompareLists(cmp_source, cmp_input, cmp_original).diffs
    /\ cmp_checks = {i \in AllRows(cmp_diffs) : cmp_diffs[i + 1].type # "source_only"}
    /\ cmp_tree = AllRows(cmp_diffs)
    /\ cmp_merge_info = MergeInfo("selected", Cardinality(cmp_checks), Len(cmp_diffs))
    /\ cmp_shared = {}
    /\ cmp_last = "select_all"
    /\ loads = MaxLoads
    /\ edits = 0
    /\ CodecIdle /\ ArrayIdle /\ EnvIdle /\ ReaderIdle

NextSave ==
    \/ _load_par
    \/ _do_save
    \/ _cmp_merge
    \/ _cmp_save

SpecSave == InitSave /\ [][NextSave]_vars

\* the bytes file written for the Model p keep the envelope (wrapped,
\* header): the raw container write_par(p) when the file was not wrapped,
\* else an envelope that decodes to the header, wrapped, and write_par(p)
KeepsEnvelope(file, p, wrapped, header) ==
    IF ~wrapped
    THEN /\ file = write_par(p)
         /\ decompress_par_file(file) = EnvelopeResult(file, None, FALSE)
    ELSE decompress_par_file(file) = EnvelopeResult(write_par(p), header, TRUE)

\* the envelope a Model of the compare tab carries is the envelope of a
\* file that loads
LoadedEnvelope(p) ==
    \E f \in SaveFiles :
      /\ decompress_par_file(f).ok
      /\ decompress_par_file(f).wrapper = p.wrapper_header
      /\ decompress_par_file(f).was_compressed = p.was_compressed

\* C28: the bytes the editor's save writes for the Model loaded from a
\* file, and the bytes the compare tab's save writes for the merged source,
\* are the raw container write_par(Model) when the file was loaded
\* unwrapped, and else an envelope that decodes to the header of the loaded
\* file (no header for a single-stream file), wrapped, and to write_par(Model)
C28_SaveKeepsEnvelope ==
    /\ (cphase = "saved" /\ ephase = "do_save")
         => KeepsEnvelope(env_file, par, decompress_par_file(data).was_compressed,
                          decompress_par_file(data).wrapper)
    /\ (cmp_last = "save" /\ ephase = "cmp_save")
         => /\ LoadedEnvelope(cmp_source)
            /\ KeepsEnvelope(env_file, cmp_source, cmp_source.was_compressed,
                             cmp_source.wrapper_header)

\* a source merged and then saved by the compare tab as a dual-stream
\* envelope that carries the header the source was loaded with
C28_Witness ==
    /\ cmp_last = "save"
    /\ ephase = "cmp_save"
    /\ cmp_merge_info.n1 >= 1
    /\ cmp_source.wrapper_header = Some(<<1, 2>>)
    /\ cmp_source.lists # cmp_input.lists
    /\ env_file # write_par(cmp_source)
    /\ decompress_par_file(env_file).wrapper = Some(<<1, 2>>)

---------------------------------------------------------------------------
(* read_par loop by loop.  rd is the reader r of read_par, frame the loop  *)
(* the function is in (pc) with the counts it has read and the lists it    *)
(* has built so far.  One action is one pass of one loop body; the loops   *)
(* that have made all their passes are left, and what they built appended, *)
(* at the end of the pass that completes them.                             *)

FmtChar(dtype) ==
    IF dtype = TYPE_ARRAY_INT32 THEN "i"
    ELSE IF dtype = TYPE_ARRAY_FLOAT THEN "f"
    ELSE "I"

ArrayKind(dtype) == IF dtype = TYPE_ARRAY_STR THEN "list_str" ELSE ListKind(FmtChar(dtype))

\* the loops of f that have made all their passes are left, innermost first
RECURSIVE Settle(_)
Settle(f) ==
    IF f.pc = "elem" /\ Len(f.values) = f.length
    THEN Settle([f EXCEPT !.pc = "field",
                          !.fields = Append(@, ParField(f.dtype,
                                                        PyList(ArrayKind(f.dtype), f.values)))])
    ELSE IF f.pc = "type" /\ Len(f.type_list) = f.eh[3]
    THEN Settle([f EXCEPT !.pc = "field"])
    ELSE IF f.pc = "field" /\ Len(f.fields) = Len(f.type_list)
    THEN Settle([f EXCEPT !.pc = "entry",
                          !.entries = Append(@, ParEntry(f.eh[1], f.eh[2], f.eh[4], f.eh[5],
                                                         f.fields))])
    ELSE IF f.pc = "entry" /\ Len(f.entries) = f.entry_count
    THEN Settle([f EXCEPT !.pc = "list",
                          !.lists = Append(@, ParList(f.lh[1], f.lh[2], f.entries))])
    ELSE IF f.pc = "list" /\ Len(f.lists) = f.list_count
    THEN [f EXCEPT !.pc = "done"]
    ELSE f

\* a read_par that hands over the lists built so far when a read fails
ParseStep_partial(r, f) ==
    /\ rd' = r
    /\ frame' = f
    /\ par' = IF r.err # "ok" \/ f.pc = "done"
              THEN read_par_result(data, [v |-> <<f.version>>],
                                   [r |-> [r EXCEPT !.err = "ok"], v |-> f.lists])
              ELSE par
    /\ UNCHANGED <<data, out, cphase, desc, rop, arrayVars, envVars, cmpVars>>

\* what a pass leaves: the reader r and the frame f; an exception leaves
\* read_par and nothing of what was built is returned
ParseStep(r, f) ==
    /\ rd' = r
    /\ frame' = f
    /\ par' = IF r.err # "ok" THEN ParError(r.err)
              ELSE IF f.pc = "done"
              THEN read_par_result(data, [v |-> <<f.version>>], [r |-> r, v |-> f.lists])
              ELSE par
    /\ UNCHANGED <<data, out, cphase, desc, rop, arrayVars, envVars, cmpVars>>

\* magic, version, list_count and pad
HeaderRead(f, magic, h) ==
    IF magic.r.err # "ok" THEN [r |-> magic.r, f |-> f]
    ELSE IF magic.v # PAR_MAGIC THEN [r |-> Raise(magic.r, "bad_magic"), f |-> f]
    ELSE IF h.r.err # "ok" THEN [r |-> h.r, f |-> f]
    ELSE [r |-> h.r,
          f |-> [f EXCEPT !.pc = "list", !.version = h.v[1], !.list_count = h.v[2],
                          !.lists = <<>>]]

\* for li in range(list_count): unknown1, unknown2, entry_count
ListRead(f, h) ==
    IF h.r.err # "ok" THEN [r |-> h.r, f |-> f]
    ELSE [r |-> h.r,
          f |-> [f EXCEPT !.pc = "entry", !.lh = <<h.v[1], h.v[2]>>,
                          !.entry_count = h.v[3], !.entries = <<>>]]

\* for ei in range(entry_count): name, unknown_byte, data_entry_count, two tags
EntryRead(f, h) ==
    IF h.r.err # "ok" THEN [r |-> h.r, f |-> f]
    ELSE [r |-> h.r,
          f |-> [f EXCEPT !.pc = "type", !.eh = h.v, !.type_list = <<>>, !.fields = <<>>]]

\* for _ in range(data_entry_count): type_list.append(r.read_u8())
TypeRead(f, x) == [r |-> x.r, f |-> [f EXCEPT !.type_list = Append(@, x.v)]]

\* an array field up to its length: check, then length when check is not 0
ArrayRead(f, dtype, check, length) ==
    IF check.r.err # "ok" THEN [r |-> check.r, f |-> f]
    ELSE IF check.v = ZERO64
    THEN [r |-> check.r,
          f |-> [f EXCEPT !.fields = Append(@, ParField(dtype,
                                                        PyList(ArrayKind(dtype), <<>>)))]]
    ELSE IF length.r.err # "ok" THEN [r |-> length.r, f |-> f]
    ELSE [r |-> length.r,
          f |-> [f EXCEPT !.pc = "elem", !.dtype = dtype, !.length = length.v,
                          !.values = <<>>]]

ScalarRead(f, x) == [r |-> x.r, f |-> [f EXCEPT !.fields = Append(@, x.v)]]

\* for dtype in type_list: the if/elif chain; an array goes on in its loop
FieldRead(f, r, dtype) ==
    IF dtype \in {TYPE_ARRAY_INT32, TYPE_ARRAY_FLOAT, TYPE_ARRAY_UINT32, TYPE_ARRAY_STR}
    THEN ArrayRead(f, dtype, read_u64(r), read_u32(read_u64(r).r))
    ELSE ScalarRead(f, read_field(r, dtype))

\* for _ in range(length): one read_i32, read_f32, read_u32 or read_delphi_string
read_elem(r, dtype) ==
    IF dtype = TYPE_ARRAY_STR THEN read_delphi_string(r)
    ELSE ElemItem(FmtChar(dtype), read_array_elem(r, FmtChar(dtype)))

ElemRead(f, x) == [r |-> x.r, f |-> [f EXCEPT !.values = Append(@, x.v)]]

Settled(x) == [r |-> x.r, f |-> IF x.r.err # "ok" THEN x.f ELSE Settle(x.f)]

\* the body of the loop that f.pc names, run once on reader r
PassOf(r, f) ==
    CASE f.pc = "start" -> HeaderRead(f, read_bytes(r, 4),
                                      ThenU32(ThenU32(ThenU32(Start(read_bytes(r, 4).r)))))
      [] f.pc = "list"  -> ListRead(f, read_list_header(r))
      [] f.pc = "entry" -> EntryRead(f, read_entry_header(r))
      [] f.pc = "type"  -> TypeRead(f, read_u8(r))
      [] f.pc = "field" -> FieldRead(f, r, f.type_list[Len(f.fields) + 1])
      [] f.pc = "elem"  -> ElemRead(f, read_elem(r, f.dtype))

\* where a pass leaves read_par: an exception leaves the frame as it was
Landed(f, x) ==
    [r |-> x.r, f |-> IF x.r.err # "ok" THEN [f EXCEPT !.pc = "failed"] ELSE x.f]

\* buffers whose counts promise far more than the buffer holds, or nothing
ParseHeader(list_count) == PAR_MAGIC \o PackLE(PAR_VERSION_TW1, 4) \o PackLE(list_count, 4) \o PackLE(0, 4)

\* a count far beyond any buffer: 2^31 - 1, as the bytes FF FF FF 7F
ManyCount == 32767 * 65536 + 65535

ParseSpecials ==
    { ParseHeader(ManyCount),
      ParseHeader(ManyCount) \o PackLE(0, 4) \o PackLE(0, 4) \o PackLE(0, 4),
      ParseHeader(1) \o PackLE(0, 4) \o PackLE(0, 4) \o PackLE(ManyCount, 4)
          \o WireEntry(NameA, 0, 0, 0, <<>>),
      ParseHeader(1) \o PackLE(0, 4) \o PackLE(0, 4) \o PackLE(1, 4)
          \o WireString(NameA) \o <<0>> \o PackLE(65535, 2) \o PackLE(0, 2) \o PackLE(0, 2)
          \o <<TYPE_INT32, TYPE_INT32>>,
      CmpPlain(<<WireList(0, 0, <<EA(<<[t |-> TYPE_ARRAY_INT32,
                                        b |-> ONE64 \o PackLE(ManyCount, 4) \o <<1, 0, 0, 0>>]>>)>>)>>),
      CmpPlain(<<WireList(0, 0, <<EA(<<[t |-> TYPE_ARRAY_STR,
                                        b |-> ONE64 \o PackLE(ManyCount, 4) \o WireString(<<>>)]>>)>>)>>),
      CmpPlain(<<WireList(0, 0, <<EA(<<[t |-> TYPE_ARRAY_UINT32,
                                        b |-> ONE64 \o PackLE(0, 4)], WI12>>)>>)>>),
      CmpPlain(<<WireList(0, 0, <<EA(<<WFARRNAN, WARR, WF1>>)>>)>>) }

ParseCuts == {0, 1, 5}

ParseBuffers ==
    {CutTail(DescFile(d), k) : d \in {x \in DecodeDescs : x.magic = PAR_MAGIC}, k \in ParseCuts}
    \cup {DescFile(d) : d \in {x \in DecodeDescs : x.fs = <<>>}}
    \cup ParseSpecials

StartFrame == [NoFrame EXCEPT !.pc = "start"]

\* the passes read_par makes on one buffer, each with the reader and the
\* frame it starts from; every pass is computed once, here
RECURSIVE Passes(_, _)
MorePasses(acc, from, to) == Passes(Append(acc, [from |-> from, to |-> to]), to)

Passes(acc, x) ==
    IF x.f.pc \in {"done", "failed"} THEN acc
    ELSE MorePasses(acc, x, Landed(x.f, Settled(PassOf(x.r, x.f))))

ParsePasses == [b \in ParseBuffers |-> Passes(<<>>, [r |-> ParReader(b), f |-> StartFrame])]

\* the pass that starts from the reader and the frame of this state
Pass ==
    \E i \in DOMAIN ParsePasses[data] :
        /\ ParsePasses[data][i].from = [r |-> rd, f |-> frame]
        /\ ParseStep(ParsePasses[data][i].to.r, ParsePasses[data][i].to.f)

read_par_header == frame.pc = "start" /\ Pass

read_par_list == frame.pc = "list" /\ Pass

read_par_entry == frame.pc = "entry" /\ Pass

read_par_type == frame.pc = "type" /\ Pass

read_par_field == frame.pc = "field" /\ Pass

read_par_elem == frame.pc = "elem" /\ Pass


InitParse ==
    /\ data \in ParseBuffers
    /\ par = NoneFile
    /\ out = <<>>
    /\ cphase = "read_par"
    /\ desc = <<>>
    /\ rd = ParReader(data)
    /\ rop = NoRead
    /\ frame = StartFrame
    /\ ArrayIdle /\ EnvIdle /\ CmpIdle

NextParse ==
    \/ read_par_header
    \/ read_par_list
    \/ read_par_entry
    \/ read_par_type
    \/ read_par_field
    \/ read_par_elem

\* one thread runs read_par from its first statement to its return or raise
SpecParse == InitParse /\ [][NextParse]_vars /\ WF_vars(NextParse)

ParseEnded == frame.pc \in {"done", "failed"}

\* every pass of a loop body of read_par moves the reader on by at least
\* one byte, or read_par fails
PassConsumes ==
    [][(frame.pc \in {"start", "list", "entry", "type", "field", "elem"})
          => (frame'.pc = "failed" \/ rd'.pos >= rd.pos + 1)]_vars

\* every step is the pass PassOf computes from the state it leaves
PassTaken ==
    [][[r |-> rd', f |-> frame'] = Landed(frame, Settled(PassOf(rd, frame)))]_vars

LastOf(seq) == seq[Len(seq)]

\* a loop that is left has made as many passes as the count read for it
LoopsComplete ==
    [][/\ (frame.pc = "elem" /\ frame'.pc \notin {"elem", "failed"})
          => Len(LastOf(frame'.fields).value.items) = frame.length
       /\ (frame'.pc # "failed" /\ Len(frame'.entries) = Len(frame.entries) + 1)
          => Len(LastOf(frame'.entries).fields) = frame'.eh[3]
       /\ (frame'.pc # "failed" /\ Len(frame'.lists) = Len(frame.lists) + 1)
          => Len(LastOf(frame'.lists).entries) = frame'.entry_count]_vars

\* read_par hands over nothing before it ends; it ends with the Model of
\* all the lists the header counts, or with an error and no Model
ParseOutcome ==
    /\ rd.pos <= Len(data)
    /\ ~ParseEnded => par = NoneFile
    /\ frame.pc = "done" => /\ par.ok
                            /\ Len(par.lists) = frame.list_count
                            /\ par.lists = frame.lists
                            /\ par = read_par(data)
    /\ frame.pc = "failed" => /\ ~par.ok
                              /\ par.lists = <<>>
                              /\ par = read_par(data)

\* C29: read_par ends on every buffer, whatever counts the buffer declares:
\* every pass of a decoding loop consumes at least one byte or fails, and
\* the decode ends with a complete Model (every list, entry and array with
\* its declared number of elements) or with an error, never a partial Model
C29_ReadParTerminates ==
    /\ PassTaken
    /\ PassConsumes
    /\ LoopsComplete
    /\ []ParseOutcome
    /\ <>ParseEnded

\* an array that declares 2147483647 elements in a buffer that holds one:
\* the second pass of the element loop failed
C29_Witness ==
    /\ frame.pc = "failed"
    /\ frame.length = ManyCount
    /\ Len(frame.values) = 1
    /\ rd.err = "past_end"
    /\ ~par.ok

---------------------------------------------------------------------------
(* Canonical files: decode, then encode *)

F32_SNAN == <<1, 0, 128, 127>>     \* a signalling NaN

\* a field of an input file: its tag t, its bytes b, the strings it holds,
\* and for an array its presence marker and declared count
NumField(t, b) == [t |-> t, b |-> b, strs |-> <<>>, marker |-> ZERO64, count |-> 0]

StrField(s) ==
    [t |-> TYPE_STRING, b |-> WireString(s), strs |-> <<s>>, marker |-> ZERO64, count |-> 0]

ArrayBytes(marker, elems) ==
    IF marker = ZERO64 THEN marker ELSE marker \o PackLE(Len(elems), 4) \o Concat(elems)

NumArray(t, marker, elems) ==
    [t |-> t, b |-> ArrayBytes(marker, elems), strs |-> <<>>,
     marker |-> marker, count |-> Len(elems)]

StrArray(marker, ss) ==
    [t |-> TYPE_ARRAY_STR, b |-> ArrayBytes(marker, [i \in 1..Len(ss) |-> WireString(ss[i])]),
     strs |-> ss, marker |-> marker, count |-> Len(ss)]

TestName == <<84, 101, 115, 116>>      \* "Test"

CanonWireFields ==
    { NumField(TYPE_INT32, <<42, 0, 0, 0>>),
      NumField(TYPE_INT32, <<255, 255, 255, 255>>),
      NumField(TYPE_FLOAT32, F32_ONE),
      NumField(TYPE_FLOAT32, F32_NAN),
      NumField(TYPE_FLOAT32, F32_SNAN),
      NumField(TYPE_UINT32, <<12, 0, 0, 0>>),
      NumField(UNKNOWN_TYPE, <<>>),
      StrField(<<65>>),
      StrField(<<>>),
      StrField(<<200>>),
      NumArray(TYPE_ARRAY_INT32, ZERO64, <<>>),
      NumArray(TYPE_ARRAY_INT32, ONE64, <<(<<5, 0, 0, 0>>), (<<255, 255, 255, 255>>)>>),
      NumArray(TYPE_ARRAY_FLOAT, ONE64, <<>>),
      NumArray(TYPE_ARRAY_FLOAT, ONE64, <<F32_TINY>>),
      NumArray(TYPE_ARRAY_UINT32, TWO64, <<(<<12, 0, 0, 0>>)>>),
      NumArray(TYPE_ARRAY_UINT32, ONE64, <<(<<12, 0, 0, 0>>)>>),
      StrArray(ZERO64, <<>>),
      StrArray(ONE64, <<(<<65, 66>>), <<>>>>),
      StrArray(ONE64, <<(<<65, 200>>)>>) }

CanonDescs ==
    { [pad |-> pad, name |-> name, tail |-> tail, nl |-> 1, fs |-> fs] :
        pad \in {0, 1}, name \in {TestName, <<200, 66>>}, tail \in {<<>>, <<7, 0>>},
        fs \in SeqsUpTo(CanonWireFields, MaxFields) }
    \cup
    { [pad |-> pad, name |-> TestName, tail |-> <<>>, nl |-> 0, fs |-> <<>>] : pad \in {0, 1} }

CanonFile(d) ==
    WireFile(PAR_VERSION_TW1, d.pad,
             Repeat(WireList(0, 0, <<WireEntry(d.name, 0, 0, 0, d.fs)>>), d.nl), d.tail)

\* magic, version 0x600, one list with tags 0,0, one entry "Test" with byte
\* 0, tags (0,0) and one int32 field 42
MinimalFile ==
    PAR_MAGIC \o <<0, 6, 0, 0>> \o <<1, 0, 0, 0>> \o <<0, 0, 0, 0>>
    \o <<0, 0, 0, 0>> \o <<0, 0, 0, 0>> \o <<1, 0, 0, 0>>
    \o <<4, 0, 0, 0>> \o TestName \o <<0>> \o <<1, 0>> \o <<0, 0>> \o <<0, 0>>
    \o <<TYPE_INT32>> \o <<42, 0, 0, 0>>

AsciiOnly(s) == \A i \in 1..Len(s) : s[i] < 128

CanonicalField(f) ==
    /\ \A i \in 1..Len(f.strs) : AsciiOnly(f.strs[i])
    /\ f.t \in ArrayTypes => \/ f.marker = ZERO64
                             \/ f.marker = ONE64 /\ f.count > 0

\* the reserved header word is 0, every string byte is ASCII, every array
\* has presence 0 or presence 1 with a non-zero count
Canonical(d) ==
    /\ d.pad = 0
    /\ d.nl > 0 => /\ AsciiOnly(d.name)
                   /\ \A i \in 1..Len(d.fs) : CanonicalField(d.fs[i])

InitCanon ==
    /\ desc \in CanonDescs
    /\ data = CanonFile(desc)
    /\ par = NoneFile
    /\ out = <<>>
    /\ cphase = "input"
    /\ rd = ParReader(<<>>) /\ rop = NoRead /\ frame = NoFrame
    /\ ArrayIdle /\ EnvIdle /\ CmpIdle

SpecCanon == InitCanon /\ [][NextCodec]_vars

ReservedWord(b) == Slice(b, 12, 16)

\* C30: a file that decodes, whose reserved header word is 0, whose string
\* bytes are all ASCII and whose arrays have presence 0 or presence 1 with a
\* non-zero count, is encoded back byte for byte; the minimal file is
\* reproduced exactly; the encoder writes 0 in the reserved word whatever
\* value was read
C30_CanonicalRoundTrip ==
    cphase = "encoded" =>
        /\ Canonical(desc) => out = data
        /\ data = MinimalFile => out = MinimalFile
        /\ ReservedWord(out) = <<0, 0, 0, 0>>

====
